---- MODULE Spec2Model ----
(***************************************************************************)
(* Deferred-action managers of XianYu-Auto-Reply: reminder_manager.py,     *)
(* review_request_manager.py, flower_request_manager.py,                   *)
(* flower_collect_manager.py and auto_review_manager.py.                   *)
(*                                                                         *)
(* Each manager owns its own record table and its own check loop; the      *)
(* managers share only tables they read (orders, blacklist, competitor,    *)
(* dispute, buyer review) and the account's live connection.  A behaviour  *)
(* therefore follows one manager, named by mgr, over the orders of one     *)
(* account.                                                                *)
(*                                                                         *)
(* The check loop is an asyncio task: between two awaits it runs without   *)
(* interruption.  Its suspension points are the 60 s sleep (pc "sleep"),   *)
(* the awaited send (pc "sending") and the 2 s pacing sleep (pc "pace");   *)
(* pc "eval" is the loop about to look at record i of its batch, which     *)
(* runs in the same uninterrupted stretch as the step before it, so        *)
(* callbacks and table updates of the rest of the program interleave only  *)
(* at the three suspension points.                                         *)
(*                                                                         *)
(* db_manager.py is not among the source files; its methods are modelled   *)
(* from the repository interface of the specification (section 6).         *)
(***************************************************************************)
EXTENDS Integers, Sequences, FiniteSets, TLC

\* ---------------------------------------------------------------- bounds

MaxDays == 2            \* the clock runs over days 0..MaxDays
MaxDelay == 2           \* largest delay value the settings take
MaxOldTasks == 1        \* replaced tasks that may be unfinished at one time
MaxReminderCount == 2   \* largest max_reminder_count the settings take
MaxTickDays == 6        \* the scenario clock runs over days 0..MaxTickDays

\* ------------------------------------------------------------- constants

DaySeconds == 86400
HourSeconds == 3600
MinuteSeconds == 60

None == -1              \* Python's None where a time is expected

Orders == {"o1", "o2"}
OrderSeq == <<"o1", "o2">>

Managers == {"reminder", "review_request", "flower_request", "flower_collect", "auto_review"}

VARIABLES
    mgr,        \* the manager this behaviour follows
    now,        \* datetime.now(), in seconds
    orders,     \* orders table: order_id -> order_status ("missing": no row)
    records,    \* the manager's record table: order_id -> record
    settings,   \* the manager's settings row of the account
    facts,      \* blacklist / dispute / competitor / buyer review tables, as read for the buyer
    channel,    \* XianyuLive instance of the account: "no_instance", "ws_closed", "open"
    templates,  \* whether the account has review templates
    tk,         \* the account's check-loop task (the one created last)
    delivered,  \* history: per order, how many sends returned success
    engine      \* the manager object and the tasks it created earlier

vars == <<mgr, now, orders, records, settings, facts, channel, templates, tk, delivered,
          engine>>

\* ------------------------------------------------------------------ data

\* max_reminder_count = None: the settings dict has no such key.

\* A row of the manager's record table.  next_time is next_reminder_time,
\* request_time or collect_time; the auto-review table keeps completed_time there.
\* count is reminder_count.  status "absent": the order has no row.
NoRecord == [status |-> "absent", count |-> 0, next_time |-> None, note |-> ""]

\* A settings row.  present = FALSE is the row db_manager returns None for.  The
\* exclusion toggles are "on", "off" or "absent" (no such key in the dict).
NoSettings ==
    [present |-> FALSE, enabled |-> FALSE, max_reminder_count |-> 0,
     first_delay_value |-> 0, first_delay_unit |-> "days", reminder_interval |-> 0,
     delay_value |-> 0, delay_unit |-> "days",
     exclude_blacklist |-> "absent", exclude_dispute |-> "absent",
     exclude_competitor |-> "absent", exclude_bad_review |-> "absent",
     exclude_medium_review |-> "absent", sensitive_words |-> FALSE]

\* What the shared tables say about one order and its buyer.  event_time: when
\* the order's originating event (shipment, completion, flower) took place;
\* ship_time: the 'ship_time' the orders table keeps for it (None: not kept).
NoFacts == [blacklist |-> FALSE, dispute |-> FALSE, competitor |-> FALSE,
            rating |-> "none", sensitive |-> FALSE, event_time |-> 0, ship_time |-> None]

IdleTask == [pc |-> "sleep", batch |-> <<>>, i |-> 0, settings |-> NoSettings,
             current_time |-> 0, outcome |-> "none"]

\* The manager object and its tasks.  running is self.running; registered: the
\* account has an entry in the tasks dict (auto-review: check_task is set);
\* awaiting: a stop() of the auto-review manager is at `await self.check_task`,
\* on the task tk ("current") or on one replaced since ("old"); at: the await at
\* which cancel() caught the task tk; old_cancelling and old_alive count the
\* tasks created before tk that have not finished, with and without a
\* cancellation pending; other: the entry and the task of a second account in
\* the same tasks dict, followed only as far as its position (pc "none": no task
\* was created, "sleep": between ticks, "tick": inside a tick);
\* started_running: what self.running was when the task tk was created.
NoTask == [registered |-> FALSE, pc |-> "none"]

RunningEngine ==
    [running |-> TRUE, registered |-> TRUE, awaiting |-> "none", at |-> "none",
     old_cancelling |-> 0, old_alive |-> 0, other |-> NoTask, started_running |-> TRUE]

\* The task is not running: it waits at one of its awaits ("cancelling": with a
\* CancelledError to be thrown into it there), or it has finished ("done").
Suspended == tk.pc \in {"sleep", "sending", "pace", "cancelling", "done"}

\* timedelta(<unit>=value) in seconds
timedelta(unit, value) ==
    CASE unit = "seconds" -> value
      [] unit = "minutes" -> value * MinuteSeconds
      [] unit = "hours"   -> value * HourSeconds
      [] unit = "days"    -> value * DaySeconds

\* dict.get(key, default) on a settings toggle that may be absent
Get(value, default) == IF value = "absent" THEN default ELSE value = "on"

\* ------------------------------------------------------------ db_manager

\* get_pending_*(cookie_id, current_time): the pending records that are due, as
\* the rows read at that moment (a later change of the table does not reach them).
RECURSIVE due_rows(_, _)
due_rows(k, t) ==
    IF k > Len(OrderSeq) THEN <<>>
    ELSE LET o == OrderSeq[k]
             r == records[o]
         IN  (IF r.status = "pending" /\ r.next_time # None /\ r.next_time <= t
              THEN <<[order_id |-> o, count |-> r.count]>>
              ELSE <<>>) \o due_rows(k + 1, t)

get_pending(t) == due_rows(1, t)

\* update_*_status(order_id, status): sets the status of the order's record,
\* whatever it was; no row, no change.
update_status(recs, o, status) ==
    IF recs[o].status = "absent" THEN recs
    ELSE [recs EXCEPT ![o].status = status]

\* update_auto_review_record_status(order_id, status, note)
update_status_note(recs, o, status, note) ==
    IF recs[o].status = "absent" THEN recs
    ELSE [recs EXCEPT ![o].status = status, ![o].note = note]

\* update_reminder_record(order_id, reminder_count, last_reminder_time,
\*                        next_reminder_time, status)
update_record(recs, o, count, next_time, status) ==
    IF recs[o].status = "absent" THEN recs
    ELSE [recs EXCEPT ![o].status = status, ![o].count = count, ![o].next_time = next_time]

\* A variant that replaces the row it finds (INSERT OR REPLACE).
create_record_Overwrites(recs, o, next_time) ==
    [recs EXCEPT ![o] = [status |-> "pending", count |-> 0,
                         next_time |-> next_time, note |-> ""]]

\* create_*_record(order_id, ...): one record per order; a second creation is a no-op.
create_record(recs, o, next_time) ==
    IF recs[o].status # "absent" THEN recs
    ELSE [recs EXCEPT ![o] = [status |-> "pending", count |-> 0,
                              next_time |-> next_time, note |-> ""]]

\* ------------------------------------------------------- the check loop

\* The loop leaves record i: the next record of the batch, or the 60 s sleep.
NextRecord(t, outcome) ==
    IF t.i < Len(t.batch)
    THEN [t EXCEPT !.pc = "eval", !.i = t.i + 1, !.outcome = outcome]
    ELSE [t EXCEPT !.pc = "sleep", !.outcome = outcome]

\* The loop reaches `await asyncio.sleep(2)` after record i.
Pace(t, outcome) == [t EXCEPT !.pc = "pace", !.outcome = outcome]

\* The loop reaches `await instance.send_msg(...)` for record i.
Sending(t) == [t EXCEPT !.pc = "sending", !.outcome = "none"]

\* A tick starts with the batch it fetched.
StartBatch(batch, s, t) ==
    [pc |-> "eval", batch |-> batch, i |-> 1, settings |-> s,
     current_time |-> t, outcome |-> "none"]

\* A variant of the head of a tick that does not look at the settings.
fetch_batch_IgnoresEnabled(t, s, batch, current_time) ==
    IF batch = <<>> THEN t ELSE StartBatch(batch, s, current_time)

\* The head of check_and_send_*: `if not settings or not settings.get('enabled'):
\* return`, then the due rows, `if not pending: return`; else the loop starts.
fetch_batch(t, s, batch, current_time) ==
    IF ~s.present \/ ~s.enabled THEN t
    ELSE IF batch = <<>> THEN t
    ELSE StartBatch(batch, s, current_time)

\* A variant in which the exception of one record ends the tick.
record_raised_AbortsBatch(t) == [t EXCEPT !.pc = "sleep", !.outcome = "error"]

\* An exception reaches the `except Exception` of the loop body: it is logged
\* and the loop goes on with the next record (`continue`), without pacing sleep.
record_raised(t) == NextRecord(t, "error")

\* A variant in which the exception of a tick ends the check loop.
tick_raised_EndsLoop(t) == [t EXCEPT !.pc = "done", !.outcome = "tick_error"]

\* An exception before the loop over the batch reaches the outer
\* `except Exception` of check_and_*: it is logged, the call returns and the
\* check loop goes to its 60 s sleep.
tick_raised(t) == [t EXCEPT !.pc = "sleep", !.outcome = "tick_error"]

\* A variant that forgets the websocket check.
ChannelUsable_NoWsCheck == channel # "no_instance"

\* The instance checks every send_*_message starts with: the account's
\* XianyuLive instance exists and its websocket is there and open.
ChannelUsable == channel = "open"

\* ------------------------------------------------------ reminder_manager

\* calculate_next_reminder_time(last_time, settings, reminder_count); the
\* KeyError of settings['max_reminder_count'] is caught and gives None
calculate_next_reminder_time(last_time, s, reminder_count) ==
    IF s.max_reminder_count = None THEN None
    ELSE IF reminder_count >= s.max_reminder_count THEN None
    ELSE IF reminder_count = 0
         THEN last_time + (IF s.first_delay_unit = "hours"
                           THEN timedelta("hours", s.first_delay_value)
                           ELSE timedelta("days", s.first_delay_value))
         ELSE last_time + timedelta("days", s.reminder_interval)

\* A variant that looks the buyer up in the blacklist whatever the toggle says.
should_remind_eval_IgnoresToggle(s, f, order_status) ==
    LET q1 == <<"blacklist">>
        q2 == q1 \o (IF Get(s.exclude_dispute, TRUE) THEN <<"dispute">> ELSE <<>>)
        q3 == q2 \o (IF Get(s.exclude_competitor, TRUE) THEN <<"competitor">> ELSE <<>>)
    IN  IF f.blacklist
        THEN [ok |-> FALSE, consulted |-> q1, why |-> "blacklist"]
        ELSE IF Get(s.exclude_dispute, TRUE) /\ f.dispute
        THEN [ok |-> FALSE, consulted |-> q2, why |-> "dispute"]
        ELSE IF Get(s.exclude_competitor, TRUE) /\ f.competitor
        THEN [ok |-> FALSE, consulted |-> q3, why |-> "competitor"]
        ELSE IF order_status = "missing" \/ order_status # "shipped"
        THEN [ok |-> FALSE, consulted |-> q3, why |-> "order_status"]
        ELSE IF order_status = "completed"
        THEN [ok |-> FALSE, consulted |-> q3, why |-> "order_status"]
        ELSE [ok |-> TRUE, consulted |-> q3, why |-> ""]

\* A variant that forgets the order-status checks after the rules.
should_remind_eval_NoOrderCheck(s, f, order_status) ==
    LET q1 == IF Get(s.exclude_blacklist, TRUE) THEN <<"blacklist">> ELSE <<>>
        q2 == q1 \o (IF Get(s.exclude_dispute, TRUE) THEN <<"dispute">> ELSE <<>>)
        q3 == q2 \o (IF Get(s.exclude_competitor, TRUE) THEN <<"competitor">> ELSE <<>>)
    IN  IF Get(s.exclude_blacklist, TRUE) /\ f.blacklist
        THEN [ok |-> FALSE, consulted |-> q1, why |-> "blacklist"]
        ELSE IF Get(s.exclude_dispute, TRUE) /\ f.dispute
        THEN [ok |-> FALSE, consulted |-> q2, why |-> "dispute"]
        ELSE IF Get(s.exclude_competitor, TRUE) /\ f.competitor
        THEN [ok |-> FALSE, consulted |-> q3, why |-> "competitor"]
        ELSE [ok |-> TRUE, consulted |-> q3, why |-> ""]

\* should_remind(reminder, settings): whether to remind (ok), the exclusion
\* rules it looked up in the tables, in the order it did (consulted), and what
\* stopped it (why); the order-status check comes after the rules
should_remind_eval(s, f, order_status) ==
    LET q1 == IF Get(s.exclude_blacklist, TRUE) THEN <<"blacklist">> ELSE <<>>
        q2 == q1 \o (IF Get(s.exclude_dispute, TRUE) THEN <<"dispute">> ELSE <<>>)
        q3 == q2 \o (IF Get(s.exclude_competitor, TRUE) THEN <<"competitor">> ELSE <<>>)
    IN  IF Get(s.exclude_blacklist, TRUE) /\ f.blacklist
        THEN [ok |-> FALSE, consulted |-> q1, why |-> "blacklist"]
        ELSE IF Get(s.exclude_dispute, TRUE) /\ f.dispute
        THEN [ok |-> FALSE, consulted |-> q2, why |-> "dispute"]
        ELSE IF Get(s.exclude_competitor, TRUE) /\ f.competitor
        THEN [ok |-> FALSE, consulted |-> q3, why |-> "competitor"]
        ELSE IF order_status = "missing" \/ order_status # "shipped"
        THEN [ok |-> FALSE, consulted |-> q3, why |-> "order_status"]
        ELSE IF order_status = "completed"
        THEN [ok |-> FALSE, consulted |-> q3, why |-> "order_status"]
        ELSE [ok |-> TRUE, consulted |-> q3, why |-> ""]

should_remind(o, s) == should_remind_eval(s, facts[o], orders[o]).ok

\* check_and_send_reminders, up to the loop over the batch
check_and_send_reminders ==
    /\ mgr = "reminder"
    /\ tk.pc = "sleep"
    /\ engine.running
    /\ tk' = fetch_batch(tk, settings, get_pending(now), now)
    /\ UNCHANGED <<mgr, engine, now, orders, records, settings, facts, channel, templates, delivered>>

\* the loop body for one reminder, up to its first await:
\* should_remind, then send_reminder_message up to send_msg
reminder_record ==
    /\ mgr = "reminder"
    /\ tk.pc = "eval"
    /\ LET o == tk.batch[tk.i].order_id
       IN  IF ~should_remind(o, tk.settings)
           THEN /\ records' = update_status(records, o, "cancelled")
                /\ tk' = NextRecord(tk, "cancelled")
           ELSE /\ UNCHANGED records
                /\ IF ~ChannelUsable \/ orders[o] = "missing"
                   THEN tk' = Pace(tk, "failed")
                   ELSE tk' = Sending(tk)
    /\ UNCHANGED <<mgr, engine, now, orders, settings, facts, channel, templates, delivered>>

\* A variant that compares with > where the code compares with >=.
reminder_success_OffByOne(recs, r, s, current_time) ==
    LET new_count == r.count + 1
        next_time == calculate_next_reminder_time(current_time, s, new_count)
    IN  IF new_count > s.max_reminder_count
        THEN update_record(recs, r.order_id, new_count, None, "completed")
        ELSE update_record(recs, r.order_id, new_count, next_time, "pending")

\* A variant that leaves next_reminder_time as it was when steps remain.
reminder_success_KeepsDue(recs, r, s, current_time) ==
    LET new_count == r.count + 1
    IN  IF new_count >= s.max_reminder_count
        THEN update_record(recs, r.order_id, new_count, None, "completed")
        ELSE update_record(recs, r.order_id, new_count, recs[r.order_id].next_time, "pending")

\* the write after send_reminder_message returned True
reminder_success(recs, r, s, current_time) ==
    LET new_count == r.count + 1
        next_time == calculate_next_reminder_time(current_time, s, new_count)
    IN  IF new_count >= s.max_reminder_count
        THEN update_record(recs, r.order_id, new_count, None, "completed")
        ELSE update_record(recs, r.order_id, new_count, next_time, "pending")

\* send_msg returns (success) or raises (send_reminder_message returns False);
\* without the key, settings['max_reminder_count'] after the send raises a
\* KeyError that the `except Exception` of the loop body catches: `continue`
reminder_sent(success) ==
    /\ mgr = "reminder"
    /\ tk.pc = "sending"
    /\ LET r == tk.batch[tk.i]
       IN  IF success /\ tk.settings.max_reminder_count = None
           THEN /\ UNCHANGED records
                /\ delivered' = [delivered EXCEPT ![r.order_id] = @ + 1]
                /\ tk' = record_raised(tk)
           ELSE IF success
           THEN /\ records' = reminder_success(records, r, tk.settings, tk.current_time)
                /\ delivered' = [delivered EXCEPT ![r.order_id] = @ + 1]
                /\ tk' = Pace(tk, "success")
           ELSE /\ UNCHANGED <<records, delivered>>
                /\ tk' = Pace(tk, "failed")
    /\ UNCHANGED <<mgr, engine, now, orders, settings, facts, channel, templates>>

\* `await asyncio.sleep(2)` returns
paced ==
    /\ tk.pc = "pace"
    /\ tk' = NextRecord(tk, tk.outcome)
    /\ UNCHANGED <<mgr, engine, now, orders, records, settings, facts, channel, templates, delivered>>

\* A variant that does not look at the enabled flag of the settings.
reminder_on_order_shipped_IgnoresEnabled(o, ship_time) ==
    /\ mgr = "reminder"
    /\ Suspended
    /\ settings.present
    /\ records' = create_record(records, o,
                                calculate_next_reminder_time(ship_time, settings, 0))
    /\ UNCHANGED <<mgr, engine, now, orders, settings, facts, channel, templates, tk, delivered>>

\* ReminderManager.on_order_shipped(order_id, cookie_id, buyer_id, ship_time)
reminder_on_order_shipped(o, ship_time) ==
    /\ mgr = "reminder"
    /\ Suspended
    /\ settings.present /\ settings.enabled
    /\ records' = create_record(records, o,
                                calculate_next_reminder_time(ship_time, settings, 0))
    /\ UNCHANGED <<mgr, engine, now, orders, settings, facts, channel, templates, tk, delivered>>

\* ReminderManager.on_order_completed(order_id)
reminder_on_order_completed(o) ==
    /\ mgr = "reminder"
    /\ Suspended
    /\ records' = update_status(records, o, "completed")
    /\ UNCHANGED <<mgr, engine, now, orders, settings, facts, channel, templates, tk, delivered>>

\* get_shipped_orders(cookie_id)
get_shipped_orders == {o \in Orders : orders[o] = "shipped"}

\* The scans' ship_time: order.get('ship_time') parsed, or datetime.now() when
\* the order has none.
order_ship_time(o, t) == IF facts[o].ship_time # None THEN facts[o].ship_time ELSE t

\* A variant that counts an order that has a record among the created ones.
scan_order_CountsExisting(acc, o, s, t) ==
    IF acc.recs[o].status # "absent"
    THEN [acc EXCEPT !.created = @ + 1]
    ELSE [acc EXCEPT !.recs = create_record(acc.recs, o,
                                            calculate_next_reminder_time(order_ship_time(o, t), s, 0)),
                     !.created = @ + 1]

\* ReminderManager.scan_shipped_orders, the loop body for one shipped order
scan_order(acc, o, s, t) ==
    IF acc.recs[o].status # "absent"
    THEN [acc EXCEPT !.skipped = @ + 1]
    ELSE [acc EXCEPT !.recs = create_record(acc.recs, o,
                                            calculate_next_reminder_time(order_ship_time(o, t), s, 0)),
                     !.created = @ + 1]

\* the loop over the shipped orders
RECURSIVE scan_from(_, _, _, _)
scan_from(k, acc, s, t) ==
    IF k > Len(OrderSeq) THEN acc
    ELSE LET o == OrderSeq[k]
         IN  IF o \in get_shipped_orders
             THEN scan_from(k + 1, scan_order(acc, o, s, t), s, t)
             ELSE scan_from(k + 1, acc, s, t)

\* ReminderManager.scan_shipped_orders(cookie_id): the table after the scan and
\* the counts it returns
scan_shipped_orders(s, t) ==
    IF ~s.present \/ ~s.enabled
    THEN [recs |-> records, total |-> 0, created |-> 0, skipped |-> 0, error |-> TRUE]
    ELSE LET acc == scan_from(1, [recs |-> records, created |-> 0, skipped |-> 0], s, t)
         IN  [recs |-> acc.recs, total |-> Cardinality(get_shipped_orders),
              created |-> acc.created, skipped |-> acc.skipped, error |-> FALSE]

reminder_scan_shipped_orders ==
    /\ mgr = "reminder"
    /\ Suspended
    /\ records' = scan_shipped_orders(settings, now).recs
    /\ UNCHANGED <<mgr, engine, now, orders, settings, facts, channel, templates, tk, delivered>>

\* ------------------------------------------------ review_request_manager

\* calculate_request_time / calculate_collect_time of the review-request,
\* flower-request and flower-collect managers: any unit other than seconds,
\* minutes and hours counts as days
calculate_request_time(event_time, s) ==
    event_time + (IF s.delay_unit \in {"seconds", "minutes", "hours"}
                  THEN timedelta(s.delay_unit, s.delay_value)
                  ELSE timedelta("days", s.delay_value))

\* check_and_send_review_requests, up to the loop over the batch
check_and_send_review_requests ==
    /\ mgr = "review_request"
    /\ tk.pc = "sleep"
    /\ engine.running
    /\ tk' = fetch_batch(tk, settings, get_pending(now), now)
    /\ UNCHANGED <<mgr, engine, now, orders, records, settings, facts, channel, templates, delivered>>

\* the order-status check of the loop body
review_order_ok(o) == orders[o] # "missing" /\ orders[o] = "completed"

\* the loop body for one request, up to its first await
review_request_record ==
    /\ mgr = "review_request"
    /\ tk.pc = "eval"
    /\ LET o == tk.batch[tk.i].order_id
       IN  IF ~review_order_ok(o)
           THEN /\ records' = update_status(records, o, "cancelled")
                /\ tk' = NextRecord(tk, "cancelled")
           ELSE /\ UNCHANGED records
                /\ IF ~ChannelUsable \/ orders[o] = "missing"
                   THEN tk' = Pace(tk, "failed")
                   ELSE tk' = Sending(tk)
    /\ UNCHANGED <<mgr, engine, now, orders, settings, facts, channel, templates, delivered>>

\* A variant that records the send but leaves the record pending.
request_success_StaysPending(recs, o) == update_status(recs, o, "pending")

\* update_review_request_record / update_flower_request_record /
\* update_flower_collect_record(order_id, <time>, status='completed')
request_success(recs, o) == update_status(recs, o, "completed")

\* send_msg returns, or raises
review_request_sent(success) ==
    /\ mgr = "review_request"
    /\ tk.pc = "sending"
    /\ LET o == tk.batch[tk.i].order_id
       IN  IF success
           THEN /\ records' = request_success(records, o)
                /\ delivered' = [delivered EXCEPT ![o] = @ + 1]
                /\ tk' = Pace(tk, "success")
           ELSE /\ UNCHANGED <<records, delivered>>
                /\ tk' = Pace(tk, "failed")
    /\ UNCHANGED <<mgr, engine, now, orders, settings, facts, channel, templates>>

\* ReviewRequestManager.on_order_completed(order_id, cookie_id, buyer_id, completed_time)
review_on_order_completed(o, completed_time) ==
    /\ mgr = "review_request"
    /\ Suspended
    /\ settings.present /\ settings.enabled
    /\ records' = create_record(records, o, calculate_request_time(completed_time, settings))
    /\ UNCHANGED <<mgr, engine, now, orders, settings, facts, channel, templates, tk, delivered>>

\* ------------------------------------------------ flower_request_manager

\* should_request_flower(request, settings), with the table lookups it made
should_request_flower_eval(s, f, order_status) == should_remind_eval(s, f, order_status)

should_request_flower(o, s) == should_request_flower_eval(s, facts[o], orders[o]).ok

\* check_and_send_flower_requests, up to the loop over the batch
check_and_send_flower_requests ==
    /\ mgr = "flower_request"
    /\ tk.pc = "sleep"
    /\ engine.running
    /\ tk' = fetch_batch(tk, settings, get_pending(now), now)
    /\ UNCHANGED <<mgr, engine, now, orders, records, settings, facts, channel, templates, delivered>>

\* the loop body for one request, up to its first await
flower_request_record ==
    /\ mgr = "flower_request"
    /\ tk.pc = "eval"
    /\ LET o == tk.batch[tk.i].order_id
       IN  IF ~should_request_flower(o, tk.settings)
           THEN /\ records' = update_status(records, o, "cancelled")
                /\ tk' = NextRecord(tk, "cancelled")
           ELSE /\ UNCHANGED records
                /\ IF ~ChannelUsable \/ orders[o] = "missing"
                   THEN tk' = Pace(tk, "failed")
                   ELSE tk' = Sending(tk)
    /\ UNCHANGED <<mgr, engine, now, orders, settings, facts, channel, templates, delivered>>

\* send_msg returns, or raises
flower_request_sent(success) ==
    /\ mgr = "flower_request"
    /\ tk.pc = "sending"
    /\ LET o == tk.batch[tk.i].order_id
       IN  IF success
           THEN /\ records' = request_success(records, o)
                /\ delivered' = [delivered EXCEPT ![o] = @ + 1]
                /\ tk' = Pace(tk, "success")
           ELSE /\ UNCHANGED <<records, delivered>>
                /\ tk' = Pace(tk, "failed")
    /\ UNCHANGED <<mgr, engine, now, orders, settings, facts, channel, templates>>

\* FlowerRequestManager.on_order_shipped(order_id, cookie_id, buyer_id, ship_time)
flower_on_order_shipped(o, ship_time) ==
    /\ mgr = "flower_request"
    /\ Suspended
    /\ settings.present /\ settings.enabled
    /\ records' = create_record(records, o, calculate_request_time(ship_time, settings))
    /\ UNCHANGED <<mgr, engine, now, orders, settings, facts, channel, templates, tk, delivered>>

\* FlowerRequestManager.on_order_completed(order_id)
flower_on_order_completed(o) ==
    /\ mgr = "flower_request"
    /\ Suspended
    /\ records' = update_status(records, o, "completed")
    /\ UNCHANGED <<mgr, engine, now, orders, settings, facts, channel, templates, tk, delivered>>

\* FlowerRequestManager.scan_shipped_orders, the loop body for one shipped order
flower_scan_order(acc, o, s, t) ==
    IF acc.recs[o].status # "absent"
    THEN [acc EXCEPT !.skipped = @ + 1]
    ELSE [acc EXCEPT !.recs = create_record(acc.recs, o,
                                            calculate_request_time(order_ship_time(o, t), s)),
                     !.created = @ + 1]

\* the loop over the shipped orders
RECURSIVE flower_scan_from(_, _, _, _)
flower_scan_from(k, acc, s, t) ==
    IF k > Len(OrderSeq) THEN acc
    ELSE LET o == OrderSeq[k]
         IN  IF o \in get_shipped_orders
             THEN flower_scan_from(k + 1, flower_scan_order(acc, o, s, t), s, t)
             ELSE flower_scan_from(k + 1, acc, s, t)

\* FlowerRequestManager.scan_shipped_orders(cookie_id): the table after the scan
\* and the counts it returns
flower_scan(s, t) ==
    IF ~s.present \/ ~s.enabled
    THEN [recs |-> records, total |-> 0, created |-> 0, skipped |-> 0, error |-> TRUE]
    ELSE LET acc == flower_scan_from(1, [recs |-> records, created |-> 0, skipped |-> 0],
                                     s, t)
         IN  [recs |-> acc.recs, total |-> Cardinality(get_shipped_orders),
              created |-> acc.created, skipped |-> acc.skipped, error |-> FALSE]

flower_scan_shipped_orders ==
    /\ mgr = "flower_request"
    /\ Suspended
    /\ records' = flower_scan(settings, now).recs
    /\ UNCHANGED <<mgr, engine, now, orders, settings, facts, channel, templates, tk, delivered>>

\* ------------------------------------------------ flower_collect_manager

\* check_and_collect_flowers, up to the loop over the batch
check_and_collect_flowers ==
    /\ mgr = "flower_collect"
    /\ tk.pc = "sleep"
    /\ engine.running
    /\ tk' = fetch_batch(tk, settings, get_pending(now), now)
    /\ UNCHANGED <<mgr, engine, now, orders, records, settings, facts, channel, templates, delivered>>

\* collect_flower(order_id, buyer_id, cookie_id): True as soon as the account
\* has an instance; it awaits nothing
collect_flower == channel # "no_instance"

\* the loop body for one record, up to the pacing sleep
flower_collect_record ==
    /\ mgr = "flower_collect"
    /\ tk.pc = "eval"
    /\ LET o == tk.batch[tk.i].order_id
       IN  IF collect_flower
           THEN /\ records' = request_success(records, o)
                /\ delivered' = [delivered EXCEPT ![o] = @ + 1]
                /\ tk' = Pace(tk, "success")
           ELSE /\ UNCHANGED <<records, delivered>>
                /\ tk' = Pace(tk, "failed")
    /\ UNCHANGED <<mgr, engine, now, orders, settings, facts, channel, templates>>

\* FlowerCollectManager.on_flower_received(order_id, cookie_id, buyer_id, send_time)
on_flower_received(o, send_time) ==
    /\ mgr = "flower_collect"
    /\ Suspended
    /\ settings.present /\ settings.enabled
    /\ records' = create_record(records, o, calculate_request_time(send_time, settings))
    /\ UNCHANGED <<mgr, engine, now, orders, settings, facts, channel, templates, tk, delivered>>

\* --------------------------------------------------- auto_review_manager

\* A variant that looks the blacklist up before the buyer's rating.
should_skip_review_eval_BlacklistFirst(s, f) ==
    LET q1 == IF Get(s.exclude_blacklist, FALSE) THEN <<"blacklist">> ELSE <<>>
        q2 == q1 \o (IF Get(s.exclude_bad_review, FALSE) THEN <<"bad_review">> ELSE <<>>)
        q3 == q2 \o (IF Get(s.exclude_medium_review, FALSE) THEN <<"medium_review">> ELSE <<>>)
        q4 == q3 \o (IF Get(s.exclude_dispute, FALSE) THEN <<"dispute">> ELSE <<>>)
        q5 == q4 \o (IF Get(s.exclude_competitor, FALSE) THEN <<"competitor">> ELSE <<>>)
        q6 == q5 \o (IF s.sensitive_words THEN <<"sensitive">> ELSE <<>>)
    IN  IF Get(s.exclude_blacklist, FALSE) /\ f.blacklist
        THEN [skip |-> TRUE, consulted |-> q1, why |-> "blacklist"]
        ELSE IF Get(s.exclude_bad_review, FALSE) /\ f.rating = "bad"
        THEN [skip |-> TRUE, consulted |-> q2, why |-> "bad_review"]
        ELSE IF Get(s.exclude_medium_review, FALSE) /\ f.rating = "medium"
        THEN [skip |-> TRUE, consulted |-> q3, why |-> "medium_review"]
        ELSE IF Get(s.exclude_dispute, FALSE) /\ f.dispute
        THEN [skip |-> TRUE, consulted |-> q4, why |-> "dispute"]
        ELSE IF Get(s.exclude_competitor, FALSE) /\ f.competitor
        THEN [skip |-> TRUE, consulted |-> q5, why |-> "competitor"]
        ELSE IF s.sensitive_words /\ f.rating # "none" /\ f.sensitive
        THEN [skip |-> TRUE, consulted |-> q6, why |-> "sensitive"]
        ELSE [skip |-> FALSE, consulted |-> q6, why |-> ""]

\* _should_skip_review(order, settings, cookie_id): whether to skip, the rules
\* it looked up, in the order it did, and what stopped it
should_skip_review_eval(s, f) ==
    LET q1 == IF Get(s.exclude_bad_review, FALSE) THEN <<"bad_review">> ELSE <<>>
        q2 == q1 \o (IF Get(s.exclude_medium_review, FALSE) THEN <<"medium_review">> ELSE <<>>)
        q3 == q2 \o (IF Get(s.exclude_blacklist, FALSE) THEN <<"blacklist">> ELSE <<>>)
        q4 == q3 \o (IF Get(s.exclude_dispute, FALSE) THEN <<"dispute">> ELSE <<>>)
        q5 == q4 \o (IF Get(s.exclude_competitor, FALSE) THEN <<"competitor">> ELSE <<>>)
        q6 == q5 \o (IF s.sensitive_words THEN <<"sensitive">> ELSE <<>>)
    IN  IF Get(s.exclude_bad_review, FALSE) /\ f.rating = "bad"
        THEN [skip |-> TRUE, consulted |-> q1, why |-> "bad_review"]
        ELSE IF Get(s.exclude_medium_review, FALSE) /\ f.rating = "medium"
        THEN [skip |-> TRUE, consulted |-> q2, why |-> "medium_review"]
        ELSE IF Get(s.exclude_blacklist, FALSE) /\ f.blacklist
        THEN [skip |-> TRUE, consulted |-> q3, why |-> "blacklist"]
        ELSE IF Get(s.exclude_dispute, FALSE) /\ f.dispute
        THEN [skip |-> TRUE, consulted |-> q4, why |-> "dispute"]
        ELSE IF Get(s.exclude_competitor, FALSE) /\ f.competitor
        THEN [skip |-> TRUE, consulted |-> q5, why |-> "competitor"]
        ELSE IF s.sensitive_words /\ f.rating # "none" /\ f.sensitive
        THEN [skip |-> TRUE, consulted |-> q6, why |-> "sensitive"]
        ELSE [skip |-> FALSE, consulted |-> q6, why |-> ""]

should_skip_review(o, s) == should_skip_review_eval(s, facts[o]).skip

\* _is_review_time_reached(completed_time, settings): any unit other than
\* seconds, minutes and hours counts as seconds
is_review_time_reached(completed_time, s, t) ==
    /\ completed_time # None
    /\ t >= completed_time + (IF s.delay_unit \in {"seconds", "minutes", "hours"}
                              THEN timedelta(s.delay_unit, s.delay_value)
                              ELSE timedelta("seconds", s.delay_value))

\* get_pending_review_orders(cookie_id): the pending rows, due or not
RECURSIVE pending_rows(_)
pending_rows(k) ==
    IF k > Len(OrderSeq) THEN <<>>
    ELSE LET o == OrderSeq[k]
             r == records[o]
         IN  (IF r.status = "pending"
              THEN <<[order_id |-> o, count |-> r.count, completed_time |-> r.next_time]>>
              ELSE <<>>) \o pending_rows(k + 1)

\* _check_and_review_orders, up to the loop over the account's orders;
\* get_auto_review_enabled_cookies gives the accounts whose settings are enabled
check_and_review_orders ==
    /\ mgr = "auto_review"
    /\ tk.pc = "sleep"
    /\ engine.running
    /\ tk' = fetch_batch(tk, settings, pending_rows(1), now)
    /\ UNCHANGED <<mgr, engine, now, orders, records, settings, facts, channel, templates, delivered>>

\* A variant that checks the review time before the skip conditions.
process_review_order_TimeFirst ==
    /\ mgr = "auto_review"
    /\ tk.pc = "eval"
    /\ LET r == tk.batch[tk.i]
           o == r.order_id
       IN  IF ~is_review_time_reached(r.completed_time, tk.settings, now)
           THEN /\ UNCHANGED records
                /\ tk' = NextRecord(tk, "not_due")
           ELSE IF should_skip_review(o, tk.settings)
           THEN /\ records' = update_status_note(records, o, "skipped", "skip_condition")
                /\ tk' = NextRecord(tk, "skipped")
           ELSE IF ~templates
           THEN /\ records' = update_status_note(records, o, "failed", "no_template")
                /\ tk' = NextRecord(tk, "failed")
           ELSE IF channel = "no_instance"
           THEN /\ records' = update_status_note(records, o, "failed", "no_instance")
                /\ tk' = NextRecord(tk, "failed")
           ELSE /\ UNCHANGED records
                /\ tk' = Sending(tk)
    /\ UNCHANGED <<mgr, engine, now, orders, settings, facts, channel, templates, delivered>>

\* _process_review_order, up to the await of send_review in _send_review
process_review_order ==
    /\ mgr = "auto_review"
    /\ tk.pc = "eval"
    /\ LET r == tk.batch[tk.i]
           o == r.order_id
       IN  IF should_skip_review(o, tk.settings)
           THEN /\ records' = update_status_note(records, o, "skipped", "skip_condition")
                /\ tk' = NextRecord(tk, "skipped")
           ELSE IF ~is_review_time_reached(r.completed_time, tk.settings, now)
           THEN /\ UNCHANGED records
                /\ tk' = NextRecord(tk, "not_due")
           ELSE IF ~templates
           THEN /\ records' = update_status_note(records, o, "failed", "no_template")
                /\ tk' = NextRecord(tk, "failed")
           ELSE IF channel = "no_instance"
           THEN /\ records' = update_status_note(records, o, "failed", "no_instance")
                /\ tk' = NextRecord(tk, "failed")
           ELSE /\ UNCHANGED records
                /\ tk' = Sending(tk)
    /\ UNCHANGED <<mgr, engine, now, orders, settings, facts, channel, templates, delivered>>

\* the write of _send_review after send_review returned True
review_success(recs, o) == update_status_note(recs, o, "completed", "template_used")

\* send_review returns True, returns False or raises
send_review_returned(success) ==
    /\ mgr = "auto_review"
    /\ tk.pc = "sending"
    /\ LET o == tk.batch[tk.i].order_id
       IN  IF success
           THEN /\ records' = review_success(records, o)
                /\ delivered' = [delivered EXCEPT ![o] = @ + 1]
                /\ tk' = NextRecord(tk, "success")
           ELSE /\ records' = update_status_note(records, o, "failed", "api_failed")
                /\ UNCHANGED delivered
                /\ tk' = NextRecord(tk, "failed")
    /\ UNCHANGED <<mgr, engine, now, orders, settings, facts, channel, templates>>

\* AutoReviewManager.on_order_completed(order_id, cookie_id, buyer_id):
\* the record keeps completed_time = datetime.now()
auto_review_on_order_completed(o) ==
    /\ mgr = "auto_review"
    /\ Suspended
    /\ settings.present /\ settings.enabled
    /\ records' = create_record(records, o, now)
    /\ UNCHANGED <<mgr, engine, now, orders, settings, facts, channel, templates, tk, delivered>>

\* ------------------------------------------------- the rest of the program

\* The platform moves an order on, and the orders table follows.
SetOrderStatus(o, status) ==
    /\ Suspended
    /\ orders[o] # status
    /\ orders' = [orders EXCEPT ![o] = status]
    /\ UNCHANGED <<mgr, engine, now, records, settings, facts, channel, templates, tk, delivered>>

\* The account's connection comes and goes.
SetChannel(c) ==
    /\ Suspended
    /\ channel # c
    /\ channel' = c
    /\ UNCHANGED <<mgr, engine, now, orders, records, settings, facts, templates, tk, delivered>>

\* A day passes.
AdvanceClock ==
    /\ Suspended
    /\ now < MaxDays * DaySeconds
    /\ now' = now + DaySeconds
    /\ UNCHANGED <<mgr, engine, orders, records, settings, facts, channel, templates, tk, delivered>>

\* save_reminder_settings: the seller changes max_reminder_count or enabled.
save_reminder_settings(enabled, max) ==
    /\ mgr = "reminder"
    /\ Suspended
    /\ settings.present
    /\ settings' = [settings EXCEPT !.enabled = enabled, !.max_reminder_count = max]
    /\ settings' # settings
    /\ UNCHANGED <<mgr, engine, now, orders, records, facts, channel, templates, tk, delivered>>

\* The seller saves the settings of the action type with the switch off or on,
\* or the settings row is deleted.
save_settings(s) ==
    /\ Suspended
    /\ settings' = s
    /\ settings' # settings
    /\ UNCHANGED <<mgr, engine, now, orders, records, facts, channel, templates, tk, delivered>>

\* The seller adds or deletes the review templates (read by the managers that
\* review; only the auto-review manager's control flow depends on them).
SetTemplates(b) ==
    /\ mgr = "auto_review"
    /\ Suspended
    /\ templates # b
    /\ templates' = b
    /\ UNCHANGED <<mgr, engine, now, orders, records, settings, facts, channel, tk, delivered>>

\* ------------------------------------------------- start, stop and tasks

\* task.cancel(): a CancelledError is thrown into the task at the await it
\* waits at, when the event loop next runs it; a finished task is left alone.
cancel(t) ==
    IF t.pc \in {"done", "cancelling"} THEN t ELSE [t EXCEPT !.pc = "cancelling"]

\* The await at which cancel() caught the task.
cancelled_at(e, t) ==
    IF t.pc \in {"done", "cancelling"} THEN e ELSE [e EXCEPT !.at = t.pc]

\* A variant in which the send swallows the CancelledError (an `except` wide
\* enough to catch it): the send counts as failed and the loop goes on.
observe_cancellation_Swallowed(t, at) ==
    IF at = "sending" THEN Pace(t, "failed") ELSE [t EXCEPT !.pc = "done"]

\* The task is run with the CancelledError: no `except Exception` on the way up
\* catches it, `except asyncio.CancelledError: break` of the check loop does,
\* and the coroutine ends.
observe_cancellation(t, at) == [t EXCEPT !.pc = "done"]

\* A variant that creates the new task without cancelling the old one.
replaced_task_NotCancelled(e, t) == t

\* start_*_task: `if cookie_id in tasks` and the old task is not done, cancel it.
replaced_task(e, t) == IF e.registered THEN cancel(t) ELSE t

\* The task tk stops being the latest task of the account: it is counted among
\* the earlier ones unless it has finished.
retire(e, t) ==
    CASE t.pc = "done"       -> e
      [] t.pc = "cancelling" -> [e EXCEPT !.old_cancelling = @ + 1]
      [] OTHER               -> [e EXCEPT !.old_alive = @ + 1]

OldTasks == engine.old_cancelling + engine.old_alive

PerAccountManagers == {"reminder", "review_request", "flower_request", "flower_collect"}

\* start_reminder_task / start_review_task / start_flower_task / start_collect_task
start_task ==
    /\ mgr \in PerAccountManagers
    /\ Suspended
    /\ tk.pc = "done" \/ OldTasks < MaxOldTasks
    /\ engine' = [retire(engine, replaced_task(engine, tk))
                     EXCEPT !.registered = TRUE, !.at = "none",
                            !.started_running = engine.running]
    /\ tk' = IdleTask
    /\ UNCHANGED <<mgr, now, orders, records, settings, facts, channel, templates, delivered>>

\* A variant of the removal that empties the dict, as stop() does.
remove_entry_ClearsDict(e, t) ==
    [cancelled_at(e, t) EXCEPT !.registered = FALSE,
                               !.other = [registered |-> FALSE, pc |-> cancel(e.other).pc]]

\* `task.cancel()` noted, then `del self.reminder_tasks[cookie_id]`: the entry
\* of this account goes, every other entry stays.
remove_entry(e, t) == [cancelled_at(e, t) EXCEPT !.registered = FALSE]

\* stop_reminder_task(cookie_id) as a function of the manager and the account's
\* task: nothing unless `cookie_id in self.reminder_tasks`.
stop_reminder_task(e, t) ==
    IF e.registered
    THEN [engine |-> remove_entry(e, t), tk |-> cancel(t)]
    ELSE [engine |-> e, tk |-> t]

\* stop_reminder_task / stop_review_task / stop_flower_task / stop_collect_task
stop_task ==
    /\ mgr \in PerAccountManagers
    /\ Suspended
    /\ tk' = stop_reminder_task(engine, tk).tk
    /\ engine' = stop_reminder_task(engine, tk).engine
    /\ UNCHANGED <<mgr, now, orders, records, settings, facts, channel, templates, delivered>>

\* A variant of start() without the `if self.running: return`.
manager_start_Restarts(e, t, s) ==
    IF s.present /\ s.enabled
    THEN [engine |-> [retire(e, replaced_task(e, t))
                         EXCEPT !.running = TRUE, !.registered = TRUE, !.at = "none",
                                !.started_running = TRUE],
          tk |-> IdleTask]
    ELSE [engine |-> [e EXCEPT !.running = TRUE], tk |-> t]

\* start() of the per-account managers as a function of the manager, the
\* account's task and its settings: nothing when running; else a task for every
\* account get_enabled_*_cookies returns.
manager_start(e, t, s) ==
    IF e.running THEN [engine |-> e, tk |-> t]
    ELSE IF s.present /\ s.enabled
    THEN [engine |-> [retire(e, replaced_task(e, t))
                         EXCEPT !.running = TRUE, !.registered = TRUE, !.at = "none",
                                !.started_running = TRUE],
          tk |-> IdleTask]
    ELSE [engine |-> [e EXCEPT !.running = TRUE], tk |-> t]

\* start() of the per-account managers
start ==
    /\ mgr \in PerAccountManagers
    /\ Suspended
    /\ (~engine.running /\ settings.present /\ settings.enabled) =>
           (tk.pc = "done" \/ OldTasks < MaxOldTasks)
    /\ engine' = manager_start(engine, tk, settings).engine
    /\ tk' = manager_start(engine, tk, settings).tk
    /\ UNCHANGED <<mgr, now, orders, records, settings, facts, channel, templates, delivered>>

\* stop() on the second account's entry: its task is cancelled unless done,
\* and the entry goes with the rest of the dict.
other_cancelled(x) ==
    IF x.registered THEN [registered |-> FALSE, pc |-> cancel(x).pc] ELSE x

\* stop() of the per-account managers as a function of the manager and the
\* account's task: nothing when not running; else cancel() on every task, clear
\* the dict, return; the tasks are not awaited.
manager_stop(e, t) ==
    IF ~e.running THEN [engine |-> e, tk |-> t]
    ELSE IF e.registered
    THEN [engine |-> [cancelled_at(e, t)
                         EXCEPT !.running = FALSE, !.registered = FALSE,
                                !.other = other_cancelled(e.other)],
          tk |-> cancel(t)]
    ELSE [engine |-> [e EXCEPT !.running = FALSE, !.other = other_cancelled(e.other)],
          tk |-> t]

\* stop() of the per-account managers
stop ==
    /\ mgr \in PerAccountManagers
    /\ Suspended
    /\ engine' = manager_stop(engine, tk).engine
    /\ tk' = manager_stop(engine, tk).tk
    /\ UNCHANGED <<mgr, now, orders, records, settings, facts, channel, templates, delivered>>

\* AutoReviewManager.start() as a function of the manager and its check_task:
\* nothing when running; else check_task is a new task.
auto_review_manager_start(e, t) ==
    IF e.running THEN [engine |-> e, tk |-> t]
    ELSE [engine |-> [retire(e, t)
                         EXCEPT !.running = TRUE, !.registered = TRUE, !.at = "none",
                                !.started_running = TRUE],
          tk |-> IdleTask]

\* AutoReviewManager.start() (the calls of start and stop are taken one at a time)
auto_review_start ==
    /\ mgr = "auto_review"
    /\ Suspended
    /\ engine.awaiting = "none"
    /\ ~engine.running => (tk.pc = "done" \/ OldTasks < MaxOldTasks)
    /\ engine' = auto_review_manager_start(engine, tk).engine
    /\ tk' = auto_review_manager_start(engine, tk).tk
    /\ UNCHANGED <<mgr, now, orders, records, settings, facts, channel, templates, delivered>>

\* AutoReviewManager.stop(), up to `await self.check_task`, as a function of
\* the manager and its check_task: nothing when not running.
auto_review_manager_stop(e, t) ==
    IF ~e.running THEN [engine |-> e, tk |-> t]
    ELSE IF e.registered
    THEN [engine |-> [cancelled_at(e, t) EXCEPT !.running = FALSE, !.awaiting = "current"],
          tk |-> cancel(t)]
    ELSE [engine |-> [e EXCEPT !.running = FALSE], tk |-> t]

\* AutoReviewManager.stop(), up to `await self.check_task`
auto_review_stop ==
    /\ mgr = "auto_review"
    /\ Suspended
    /\ engine.awaiting = "none"
    /\ engine' = auto_review_manager_stop(engine, tk).engine
    /\ tk' = auto_review_manager_stop(engine, tk).tk
    /\ UNCHANGED <<mgr, now, orders, records, settings, facts, channel, templates, delivered>>

\* AutoReviewManager.stop() from `await self.check_task` on: the task has ended
auto_review_stop_returns ==
    /\ mgr = "auto_review"
    /\ engine.awaiting = "current"
    /\ tk.pc = "done"
    /\ engine' = [engine EXCEPT !.awaiting = "none"]
    /\ UNCHANGED <<mgr, now, orders, records, settings, facts, channel, templates, tk, delivered>>

\* The event loop runs the cancelled task: the CancelledError reaches the check loop.
task_cancelled ==
    /\ tk.pc = "cancelling"
    /\ tk' = observe_cancellation(tk, engine.at)
    /\ UNCHANGED <<mgr, engine, now, orders, records, settings, facts, channel, templates, delivered>>

\* The same for a task that was replaced since.
old_task_cancelled ==
    /\ engine.old_cancelling > 0
    /\ engine' = [engine EXCEPT !.old_cancelling = @ - 1]
    /\ UNCHANGED <<mgr, now, orders, records, settings, facts, channel, templates, tk, delivered>>

\* A variant in which the task takes its entry out of the dict when it ends.
loop_exits_Unregisters ==
    /\ tk.pc = "sleep"
    /\ ~engine.running
    /\ tk' = [tk EXCEPT !.pc = "done"]
    /\ engine' = [engine EXCEPT !.registered = FALSE]
    /\ UNCHANGED <<mgr, now, orders, records, settings, facts, channel, templates, delivered>>

\* `while self.running` is false when the loop comes to it: the task ends.
loop_exits ==
    /\ tk.pc = "sleep"
    /\ ~engine.running
    /\ tk' = [tk EXCEPT !.pc = "done"]
    /\ UNCHANGED <<mgr, engine, now, orders, records, settings, facts, channel, templates, delivered>>

Lifecycle ==
    \/ start
    \/ stop
    \/ start_task
    \/ stop_task
    \/ auto_review_start
    \/ auto_review_stop
    \/ auto_review_stop_returns
    \/ task_cancelled
    \/ old_task_cancelled
    \/ loop_exits

\* ------------------------------------------------------------------ runs

\* The settings the runs start from: delays of one day (auto-review: one hour),
\* the exclusion toggles as the settings page saves them.
ReminderSettings(max) ==
    [NoSettings EXCEPT !.present = TRUE, !.enabled = TRUE, !.max_reminder_count = max,
                       !.first_delay_value = 1, !.first_delay_unit = "days",
                       !.reminder_interval = 1,
                       !.exclude_blacklist = "on", !.exclude_dispute = "on",
                       !.exclude_competitor = "on"]

RequestSettings ==
    [NoSettings EXCEPT !.present = TRUE, !.enabled = TRUE,
                       !.delay_value = 1, !.delay_unit = "days",
                       !.exclude_blacklist = "on", !.exclude_dispute = "on",
                       !.exclude_competitor = "on"]

AutoReviewSettings ==
    [NoSettings EXCEPT !.present = TRUE, !.enabled = TRUE,
                       !.delay_value = 1, !.delay_unit = "hours",
                       !.exclude_blacklist = "on", !.exclude_dispute = "on",
                       !.exclude_competitor = "on", !.exclude_bad_review = "on",
                       !.exclude_medium_review = "on", !.sensitive_words = TRUE]

InitialSettings(m) ==
    CASE m = "reminder"    -> {ReminderSettings(n) : n \in 1..MaxReminderCount}
      [] m = "auto_review" -> {AutoReviewSettings}
      [] OTHER             -> {RequestSettings}

InitWith(managers, factsets) ==
    /\ mgr \in managers
    /\ now = 0
    /\ orders = [o \in Orders |-> "missing"]
    /\ records = [o \in Orders |-> NoRecord]
    /\ settings \in InitialSettings(mgr)
    /\ facts \in [Orders -> factsets]
    /\ channel = "open"
    /\ templates = TRUE
    /\ tk = IdleTask
    /\ delivered = [o \in Orders |-> 0]
    /\ engine = RunningEngine

OrderStatuses == {"missing", "shipped", "completed"}
Channels == {"no_instance", "ws_closed", "open"}

\* What the rest of the program does to the shared tables and the connection.
Environment(os) ==
    \/ \E o \in os, st \in OrderStatuses : SetOrderStatus(o, st)
    \/ \E c \in Channels : SetChannel(c)
    \/ AdvanceClock

ReminderManager(os) ==
    \/ check_and_send_reminders
    \/ reminder_record
    \/ \E success \in BOOLEAN : reminder_sent(success)
    \/ \E o \in os : reminder_on_order_shipped(o, now)
    \/ \E o \in os : reminder_on_order_completed(o)
    \/ reminder_scan_shipped_orders

ReviewRequestManager(os) ==
    \/ check_and_send_review_requests
    \/ review_request_record
    \/ \E success \in BOOLEAN : review_request_sent(success)
    \/ \E o \in os : review_on_order_completed(o, now)

FlowerRequestManager(os) ==
    \/ check_and_send_flower_requests
    \/ flower_request_record
    \/ \E success \in BOOLEAN : flower_request_sent(success)
    \/ \E o \in os : flower_on_order_shipped(o, now)
    \/ \E o \in os : flower_on_order_completed(o)
    \/ flower_scan_shipped_orders

FlowerCollectManager(os) ==
    \/ check_and_collect_flowers
    \/ flower_collect_record
    \/ \E o \in os : on_flower_received(o, now)

AutoReviewManager(os) ==
    \/ check_and_review_orders
    \/ process_review_order
    \/ \E success \in BOOLEAN : send_review_returned(success)
    \/ \E o \in os : auto_review_on_order_completed(o)

\* Every manager, two orders, no buyer excluded.
Init == InitWith(Managers, {NoFacts})

Next ==
    \/ ReminderManager(Orders)
    \/ ReviewRequestManager(Orders)
    \/ FlowerRequestManager(Orders)
    \/ FlowerCollectManager(Orders)
    \/ AutoReviewManager(Orders)
    \/ paced
    \/ Environment(Orders)
    \/ \E b \in BOOLEAN : SetTemplates(b)

Spec == Init /\ [][Next]_vars

\* The reminder manager over one order, the seller changing the settings.
InitSettings == InitWith({"reminder"}, {NoFacts})

NextSettings ==
    \/ ReminderManager({"o1"})
    \/ paced
    \/ Environment({"o1"})
    \/ \E e \in BOOLEAN, m \in 1..MaxReminderCount : save_reminder_settings(e, m)

SpecSettings == InitSettings /\ [][NextSettings]_vars

\* The exclusion rules: a tick that has just fetched the due record of order o1,
\* under every setting of the toggles and every content of the tables.
Toggles == {"on", "off", "absent"}

RuleSettings(m) ==
    IF m = "auto_review"
    THEN {[AutoReviewSettings EXCEPT !.exclude_bad_review = t[1],
                                     !.exclude_medium_review = t[2],
                                     !.exclude_blacklist = t[3],
                                     !.exclude_dispute = t[4],
                                     !.exclude_competitor = t[5],
                                     !.sensitive_words = w]
            : t \in [1..5 -> Toggles], w \in BOOLEAN}
    ELSE {[(IF m = "reminder" THEN ReminderSettings(1) ELSE RequestSettings)
              EXCEPT !.exclude_blacklist = t[1],
                     !.exclude_dispute = t[2],
                     !.exclude_competitor = t[3]]
            : t \in [1..3 -> Toggles]}

RuleFacts(m) ==
    IF m = "auto_review"
    THEN [blacklist : BOOLEAN, dispute : BOOLEAN, competitor : BOOLEAN,
          rating : {"none", "good", "bad", "medium"}, sensitive : BOOLEAN,
          event_time : {0}, ship_time : {None}]
    ELSE [blacklist : BOOLEAN, dispute : BOOLEAN, competitor : BOOLEAN,
          rating : {"none"}, sensitive : {FALSE}, event_time : {0}, ship_time : {None}]

InitRules ==
    /\ mgr \in {"reminder", "flower_request", "auto_review"}
    /\ now = DaySeconds
    /\ \E st \in (IF mgr = "auto_review" THEN {"completed"} ELSE OrderStatuses) :
           orders = [o \in Orders |-> IF o = "o1" THEN st ELSE "missing"]
    /\ records = [o \in Orders |->
                    IF o = "o1" THEN [NoRecord EXCEPT !.status = "pending", !.next_time = 0]
                    ELSE NoRecord]
    /\ settings \in RuleSettings(mgr)
    /\ \E f \in RuleFacts(mgr) : facts = [o \in Orders |-> IF o = "o1" THEN f ELSE NoFacts]
    /\ channel = "open"
    /\ templates = TRUE
    /\ tk = StartBatch(IF mgr = "auto_review" THEN pending_rows(1) ELSE get_pending(now),
                       settings, now)
    /\ delivered = [o \in Orders |-> 0]
    /\ engine = RunningEngine

NextRules ==
    \/ reminder_record
    \/ flower_request_record
    \/ process_review_order

SpecRules == InitRules /\ [][NextRules]_vars

\* Start and stop: every manager from its construction (not running, no task),
\* over two shipped orders that the buyers may go on to complete; the
\* connection stays open.
InitLifecycle ==
    /\ mgr \in Managers
    /\ now = 0
    /\ orders = [o \in Orders |-> "shipped"]
    /\ records = [o \in Orders |-> NoRecord]
    /\ settings \in InitialSettings(mgr)
    /\ facts = [o \in Orders |-> NoFacts]
    /\ channel = "open"
    /\ templates = TRUE
    /\ tk = [IdleTask EXCEPT !.pc = "done"]
    /\ delivered = [o \in Orders |-> 0]
    /\ engine = [RunningEngine EXCEPT !.running = FALSE, !.registered = FALSE]

NextLifecycle ==
    \/ ReminderManager(Orders)
    \/ ReviewRequestManager(Orders)
    \/ FlowerRequestManager(Orders)
    \/ FlowerCollectManager(Orders)
    \/ AutoReviewManager(Orders)
    \/ paced
    \/ \E o \in Orders : SetOrderStatus(o, "completed")
    \/ AdvanceClock
    \/ Lifecycle

SpecLifecycle == InitLifecycle /\ [][NextLifecycle]_vars

\* ---------------------------------------------------------------- claims

Terminal == {"completed", "cancelled"}

\* The check loop is processing record o of its batch in this step.
Evaluating(o) == tk.pc = "eval" /\ tk.batch[tk.i].order_id = o /\ tk' # tk

\* The awaited send of record o returns in this step.
Returning(o) == tk.pc = "sending" /\ tk.batch[tk.i].order_id = o /\ tk' # tk

\* C1: once a record's status is completed or cancelled, no later operation
\* (tick step, on_order_completed, rescan, creation) changes its status.
C1_TerminalAbsorbing ==
    [][\A o \in Orders :
          records[o].status \in Terminal => records'[o].status = records[o].status]_vars

\* C2: the stored attempt counter of a reminder record is at most the configured
\* max_reminder_count, whatever the seller does to the settings between ticks:
\* no write of the check loop stores a count above the maximum its tick read.
C2_CountAtMostMax ==
    [][mgr = "reminder" =>
          \A o \in Orders :
              records'[o].count # records[o].count
                  => records'[o].count <= tk.settings.max_reminder_count]_vars

\* C3: with max_reminder_count = N, the step in which the Nth send succeeds
\* leaves the record completed, and each of the first N-1 successful sends
\* leaves it pending; no send succeeds after the Nth.
C3_CompletedOnNthSend ==
    [][\A o \in Orders :
          (mgr = "reminder" /\ Returning(o) /\ tk'.outcome = "success")
              => LET N == tk.settings.max_reminder_count
                 IN  /\ delivered'[o] = delivered[o] + 1
                     /\ delivered'[o] <= N
                     /\ delivered'[o] = N => records'[o].status = "completed"
                     /\ delivered'[o] < N => records'[o].status = "pending"]_vars

\* C3 witness: the last allowed send (the second, with max_reminder_count = 2)
\* has just succeeded and
\* the record is completed.
C3_Witness ==
    \E o \in Orders :
        /\ mgr = "reminder" /\ tk.pc = "pace" /\ tk.outcome = "success"
        /\ tk.batch[tk.i].order_id = o
        /\ tk.settings.max_reminder_count = MaxReminderCount
        /\ delivered[o] = MaxReminderCount
        /\ records[o].status = "completed"

NonEscalating == {"review_request", "flower_request", "flower_collect", "auto_review"}

\* C4: a record of a non-escalating type is sent successfully at most once, and
\* once it has been it is completed (so no later tick fetches it).
C4_FiresOnce ==
    mgr \in NonEscalating =>
        \A o \in Orders :
            /\ delivered[o] <= 1
            /\ delivered[o] = 1 => records[o].status = "completed"

\* C4 witness: a record was sent, is completed, and a later tick has started on
\* the other order's record.
C4_Witness ==
    \E o \in Orders :
        /\ mgr \in NonEscalating
        /\ delivered[o] = 1
        /\ records[o].status = "completed"
        /\ tk.pc = "eval" /\ tk.batch[tk.i].order_id # o /\ tk.i = 1

ChatManagers == {"reminder", "review_request", "flower_request"}

\* The record passes the manager's own checks, so the loop goes on to send it.
PassesChecks(o) ==
    CASE mgr = "reminder"       -> should_remind(o, tk.settings)
      [] mgr = "flower_request" -> should_request_flower(o, tk.settings)
      [] mgr = "review_request" -> review_order_ok(o)
      [] OTHER                  -> TRUE

C6_FailureLeavesPending ==
    [][\A o \in Orders :
          ((Evaluating(o) \/ Returning(o)) /\ tk'.outcome = "failed")
              => records'[o] = records[o]]_vars

\* C7: a reminder or flower_request record whose order is missing, not shipped
\* or completed when the loop processes it is not sent and is marked cancelled;
\* a cancelled record never becomes pending again and is never sent.
C7_OrderPrecondition ==
    [][\A o \in Orders :
          mgr \in {"reminder", "flower_request"} =>
              /\ (Evaluating(o) /\ orders[o] # "shipped") =>
                     (/\ records'[o].status = "cancelled"
                      /\ tk'.pc # "sending"
                      /\ delivered' = delivered)
              /\ (records[o].status = "cancelled") =>
                     (/\ records'[o].status # "pending"
                      /\ delivered'[o] = delivered[o])
      ]_vars

\* C7 witness: the loop has just cancelled a record whose order is completed.
C7_Witness ==
    \E o \in Orders :
        /\ mgr \in {"reminder", "flower_request"}
        /\ tk.outcome = "cancelled"
        /\ tk.batch[Len(tk.batch)].order_id = o /\ tk.pc = "sleep"
        /\ orders[o] = "completed"
        /\ records[o].status = "cancelled"
        /\ delivered[o] = 0

\* C8: a review_request or auto_review record is handed to the platform only
\* when its order's status is completed; otherwise the record is cancelled.
C8_ReviewPrecondition ==
    [][\A o \in Orders :
          (mgr \in {"review_request", "auto_review"} /\ Evaluating(o)) =>
              /\ (tk'.pc = "sending") => (orders[o] = "completed")
              /\ (orders[o] # "completed") => (records'[o].status = "cancelled")
      ]_vars

\* C9: with exclude_blacklist on and the buyer blacklisted (whether or not the
\* competitor rule matches too), a due record of a shipped order is not sent
\* and ends cancelled with the recorded reason "blacklist".
C9_BlacklistReason ==
    [][\A o \in Orders :
          (/\ mgr \in {"reminder", "flower_request"}
           /\ Evaluating(o)
           /\ orders[o] = "shipped"
           /\ tk.settings.exclude_blacklist = "on"
           /\ facts[o].blacklist) =>
              /\ tk'.pc # "sending"
              /\ records'[o].status = "cancelled"
              /\ records'[o].note = "blacklist"
      ]_vars

\* Whether the action type's settings switch the rule on: reminder and
\* flower_request know three rules, auto_review six.
RuleEnabled(m, s, rule) ==
    IF m = "auto_review"
    THEN CASE rule = "bad_review"    -> Get(s.exclude_bad_review, FALSE)
           [] rule = "medium_review" -> Get(s.exclude_medium_review, FALSE)
           [] rule = "blacklist"     -> Get(s.exclude_blacklist, FALSE)
           [] rule = "dispute"       -> Get(s.exclude_dispute, FALSE)
           [] rule = "competitor"    -> Get(s.exclude_competitor, FALSE)
           [] rule = "sensitive"     -> s.sensitive_words
    ELSE CASE rule = "blacklist"     -> Get(s.exclude_blacklist, TRUE)
           [] rule = "dispute"       -> Get(s.exclude_dispute, TRUE)
           [] rule = "competitor"    -> Get(s.exclude_competitor, TRUE)
           [] OTHER                  -> FALSE

\* Whether the rule excludes a buyer and order with these facts.
RuleExcludes(f, rule) ==
    CASE rule = "blacklist"     -> f.blacklist
      [] rule = "dispute"       -> f.dispute
      [] rule = "competitor"    -> f.competitor
      [] rule = "bad_review"    -> f.rating = "bad"
      [] rule = "medium_review" -> f.rating = "medium"
      [] rule = "sensitive"     -> f.rating # "none" /\ f.sensitive

\* The rules looked up when the enabled ones are taken in the given order and
\* evaluation stops at the first that excludes.
RECURSIVE ConsultedInOrder(_, _, _, _, _)
ConsultedInOrder(order, k, m, s, f) ==
    IF k > Len(order) THEN <<>>
    ELSE LET rule == order[k]
         IN  IF ~RuleEnabled(m, s, rule) THEN ConsultedInOrder(order, k + 1, m, s, f)
             ELSE IF RuleExcludes(f, rule) THEN <<rule>>
             ELSE <<rule>> \o ConsultedInOrder(order, k + 1, m, s, f)

\* The rules a processing step of the current manager looks up, in order.
ConsultedNow(o) ==
    IF mgr = "auto_review"
    THEN should_skip_review_eval(tk.settings, facts[o]).consulted
    ELSE IF mgr = "reminder"
    THEN should_remind_eval(tk.settings, facts[o], orders[o]).consulted
    ELSE should_request_flower_eval(tk.settings, facts[o], orders[o]).consulted

\* Some enabled rule excludes the record.
Excluded(o) ==
    \E rule \in {"blacklist", "dispute", "competitor", "bad_review", "medium_review",
                 "sensitive"} :
        RuleEnabled(mgr, tk.settings, rule) /\ RuleExcludes(facts[o], rule)

PriorityOrder ==
    <<"blacklist", "dispute", "competitor", "bad_review", "medium_review", "sensitive">>

EvaluationOrder(m) ==
    IF m = "auto_review"
    THEN <<"bad_review", "medium_review", "blacklist", "dispute", "competitor", "sensitive">>
    ELSE <<"blacklist", "dispute", "competitor">>

RuleNames ==
    {"blacklist", "dispute", "competitor", "bad_review", "medium_review", "sensitive"}

\* The toggle of a rule as the settings row holds it: "on", "off" or "absent".
ToggleValue(s, rule) ==
    CASE rule = "blacklist"     -> s.exclude_blacklist
      [] rule = "dispute"       -> s.exclude_dispute
      [] rule = "competitor"    -> s.exclude_competitor
      [] rule = "bad_review"    -> s.exclude_bad_review
      [] rule = "medium_review" -> s.exclude_medium_review
      [] rule = "sensitive"     -> IF s.sensitive_words THEN "on" ELSE "off"

\* The rules the action type evaluates at all.
RulesOf(m) ==
    IF m = "auto_review" THEN RuleNames ELSE {"blacklist", "dispute", "competitor"}

\* The order-status precondition of the record holds, so only a rule can stop it.
PreconditionHolds(o) == mgr = "auto_review" \/ orders[o] = "shipped"

\* The set of the elements of a sequence.
Range(q) == {q[k] : k \in 1..Len(q)}

\* C11 as stated: a rule whose toggle is off or absent is not evaluated and
\* never excludes; only a rule whose toggle is explicitly on cancels a record.
C11_OnlyExplicitToggle ==
    [][\A o \in Orders :
          Evaluating(o) =>
              /\ \A rule \in Range(ConsultedNow(o)) : ToggleValue(tk.settings, rule) = "on"
              /\ (/\ PreconditionHolds(o)
                  /\ records'[o].status \in {"cancelled", "skipped"}) =>
                     (\E rule \in RulesOf(mgr) :
                         /\ ToggleValue(tk.settings, rule) = "on"
                         /\ RuleExcludes(facts[o], rule))
      ]_vars

\* Whether the toggle counts as on: reminder and flower_request take an absent
\* toggle as on, auto_review takes it as off.
ToggleCounts(m, s, rule) ==
    \/ ToggleValue(s, rule) = "on"
    \/ ToggleValue(s, rule) = "absent" /\ m # "auto_review"

\* C11 amended: a rule whose toggle is off is not evaluated and never excludes;
\* a toggle absent from the settings counts as off for auto_review and as on
\* for reminder and flower_request.  Only a rule whose toggle counts as on
\* cancels (auto_review: skips) a record whose order-status precondition holds.
C11_OffToggleSkipped ==
    [][\A o \in Orders :
          Evaluating(o) =>
              /\ \A rule \in Range(ConsultedNow(o)) : ToggleCounts(mgr, tk.settings, rule)
              /\ (/\ PreconditionHolds(o)
                  /\ records'[o].status \in {"cancelled", "skipped"}) =>
                     (\E rule \in RulesOf(mgr) :
                         /\ ToggleCounts(mgr, tk.settings, rule)
                         /\ RuleExcludes(facts[o], rule))
      ]_vars

\* C11 witness: the blacklist toggle is off, the buyer is blacklisted, and the
\* reminder for the shipped order has gone on to the send.
C11_Witness ==
    /\ mgr = "reminder"
    /\ tk.pc = "sending" /\ tk.batch[tk.i].order_id = "o1"
    /\ tk.settings.exclude_blacklist = "off"
    /\ facts["o1"].blacklist
    /\ orders["o1"] = "shipped"
    /\ records["o1"].status = "pending"

\* C12: for every action type, processing a due pending record that an enabled
\* exclusion rule excludes makes it cancelled, with the reason recorded on it,
\* and does not send it.
C12_ExcludedIsCancelled ==
    [][\A o \in Orders :
          (/\ Evaluating(o)
           /\ records[o].status = "pending"
           /\ \E rule \in RuleNames :
                 ToggleValue(tk.settings, rule) = "on" /\ RuleExcludes(facts[o], rule)) =>
              /\ tk'.pc # "sending"
              /\ records'[o].status = "cancelled"
              /\ records'[o].note # ""
      ]_vars

\* The callbacks and rescans alone, under settings that are missing, disabled
\* or enabled.
CallbackSettings(m) ==
    {NoSettings} \cup InitialSettings(m)
                 \cup {[s EXCEPT !.enabled = FALSE] : s \in InitialSettings(m)}

InitCallbacks ==
    /\ mgr \in Managers
    /\ now = 0
    /\ orders = [o \in Orders |-> "missing"]
    /\ records = [o \in Orders |-> NoRecord]
    /\ settings \in CallbackSettings(mgr)
    /\ facts = [o \in Orders |-> NoFacts]
    /\ channel = "open"
    /\ templates = TRUE
    /\ tk = IdleTask
    /\ delivered = [o \in Orders |-> 0]
    /\ engine = RunningEngine

\* A domain-event callback that creates the record of order o.
CreationCallback(o) ==
    \/ reminder_on_order_shipped(o, now)
    \/ review_on_order_completed(o, now)
    \/ flower_on_order_shipped(o, now)
    \/ on_flower_received(o, now)
    \/ auto_review_on_order_completed(o)

NextCallbacks ==
    \/ \E o \in Orders : CreationCallback(o)
    \/ \E o \in Orders : reminder_on_order_completed(o)
    \/ \E o \in Orders : flower_on_order_completed(o)
    \/ reminder_scan_shipped_orders
    \/ flower_scan_shipped_orders
    \/ \E o \in Orders, st \in OrderStatuses : SetOrderStatus(o, st)
    \/ AdvanceClock

SpecCallbacks == InitCallbacks /\ [][NextCallbacks]_vars

\* The delays: every manager under every delay unit, one the calculators do not
\* know among them, and every delay value up to MaxDelay; one order, whose
\* event comes at time 0, and a clock that stops at the instants around the
\* candidate due times.
DelayUnits == {"seconds", "minutes", "hours", "days", "weeks"}

DelaySettings(m) ==
    IF m = "reminder"
    THEN {[ReminderSettings(1) EXCEPT !.first_delay_unit = u, !.first_delay_value = v]
            : u \in DelayUnits, v \in 0..MaxDelay}
    ELSE {[(IF m = "auto_review" THEN AutoReviewSettings ELSE RequestSettings)
              EXCEPT !.delay_unit = u, !.delay_value = v]
            : u \in DelayUnits, v \in 0..MaxDelay}

Instants ==
    {t \in {v * u - d : v \in 1..MaxDelay,
                        u \in {1, MinuteSeconds, HourSeconds, DaySeconds},
                        d \in {0, 1}} : t > 0}

\* Time passes, up to one of the instants.
SetClock(t) ==
    /\ Suspended
    /\ t > now
    /\ now' = t
    /\ UNCHANGED <<mgr, engine, orders, records, settings, facts, channel, templates, tk, delivered>>

InitDelay ==
    /\ mgr \in Managers
    /\ now = 0
    /\ orders = [o \in Orders |-> "completed"]
    /\ records = [o \in Orders |-> NoRecord]
    /\ settings \in DelaySettings(mgr)
    /\ facts = [o \in Orders |-> NoFacts]
    /\ channel = "open"
    /\ templates = TRUE
    /\ tk = IdleTask
    /\ delivered = [o \in Orders |-> 0]
    /\ engine = RunningEngine

NextDelay ==
    \/ CreationCallback("o1")
    \/ \E t \in Instants : SetClock(t)
    \/ check_and_review_orders
    \/ process_review_order

SpecDelay == InitDelay /\ [][NextDelay]_vars

\* C13: when stop() is called while a record's send is in flight, the send
\* completes and its result is what the task ends with: the task does not end
\* at the send await with the record left as it was before the send.
C13_InFlightSendCompletes ==
    [][\A o \in Orders :
          (/\ tk.pc = "cancelling" /\ engine.at = "sending" /\ ~engine.running
           /\ tk.batch[tk.i].order_id = o
           /\ tk'.pc = "done") =>
              tk'.outcome \in {"success", "failed"}
      ]_vars

\* C14: a task that cancel() has caught at one of its awaits changes no record
\* and goes on to no further record of its batch: its only step ends it, and
\* once ended it does nothing (tk changes again only when a new task is created).
C14_NoStepAfterCancellation ==
    [][/\ (tk.pc = "cancelling" /\ tk' # tk) =>
              /\ records' = records
              /\ delivered' = delivered
              /\ tk' = [tk EXCEPT !.pc = "done"] \/ tk' = IdleTask
       /\ (tk.pc = "done" /\ tk' # tk) =>
              /\ records' = records
              /\ delivered' = delivered
              /\ tk' = IdleTask
      ]_vars

\* C14 witness: the task was cancelled at the send of the first of two records
\* of its batch and has ended there; neither record was touched.
C14_Witness ==
    /\ tk.pc = "done"
    /\ engine.at = "sending"
    /\ Len(tk.batch) = 2 /\ tk.i = 1
    /\ \A o \in Orders : records[o].status = "pending" /\ delivered[o] = 0

\* stop() returns in this step.
StopReturns ==
    \/ mgr \in PerAccountManagers /\ engine.running /\ ~engine'.running
    \/ mgr = "auto_review" /\ engine.awaiting = "current" /\ engine'.awaiting = "none"

\* C15: when stop() returns, every task of the manager has finished.
C15_StopAwaitsTasks ==
    [][StopReturns =>
          /\ tk'.pc = "done"
          /\ engine'.old_cancelling = 0
          /\ engine'.old_alive = 0
      ]_vars

\* The check loops of the account that can still process records: tasks that
\* have neither finished nor been cancelled.
LiveLoops ==
    (IF tk.pc \in {"done", "cancelling"} THEN 0 ELSE 1) + engine.old_alive

\* C16: at most one check loop of the account can process records, the one
\* registered for the account; every task it replaced has been cancelled.
C16_OneLoopPerAccount ==
    /\ LiveLoops <= 1
    /\ engine.old_alive = 0
    /\ tk.pc \notin {"done", "cancelling"} => engine.registered

\* C16 witness: a new task is processing a record while the task it replaced,
\* cancelled, has not finished yet.
C16_Witness ==
    /\ mgr \in PerAccountManagers
    /\ engine.old_cancelling = 1
    /\ engine.registered
    /\ tk.pc = "sending"

\* C17: an order has one record per action type, and a callback or rescan that
\* comes when the record exists leaves its attempt count, due time and status
\* as they are (on_order_completed of reminder and flower_request, which is not
\* a creation, may mark it completed); a record never disappears.
C17_CreationIdempotent ==
    [][\A o \in Orders :
          (records[o].status # "absent" /\ tk' = tk) =>
              /\ records'[o].count = records[o].count
              /\ records'[o].next_time = records[o].next_time
              /\ records'[o].note = records[o].note
              /\ \/ records'[o].status = records[o].status
                 \/ /\ mgr \in {"reminder", "flower_request"}
                    /\ records'[o].status = "completed"
      ]_vars

\* C17 witness: a reminder record that has been sent once and waits for its
\* second send, its order still shipped and the settings enabled, so that
\* on_order_shipped and the rescan find it there when they come again.
C17_Witness ==
    \E o \in Orders :
        /\ mgr = "reminder"
        /\ Suspended
        /\ settings.present /\ settings.enabled
        /\ orders[o] = "shipped"
        /\ records[o].status = "pending"
        /\ records[o].count = 1
        /\ records[o].next_time # calculate_next_reminder_time(now, settings, 0)

\* C18: a record comes into being only while the settings of the action type
\* exist and are enabled, and it is then pending with no attempt made; and a
\* callback for an order without a record, under enabled settings, creates it.
C18_CreatedIffEnabled ==
    [][\A o \in Orders :
          /\ (records[o].status = "absent" /\ records'[o].status # "absent") =>
                 /\ settings.present /\ settings.enabled
                 /\ records'[o].status = "pending"
                 /\ records'[o].count = 0
          /\ (/\ CreationCallback(o)
              /\ records[o].status = "absent"
              /\ settings.present /\ settings.enabled) =>
                 records'[o].status = "pending"
      ]_vars

\* C18 witness: under enabled settings the callback has created a pending
\* record for one order, the other order has none.
C18_Witness ==
    /\ settings.present /\ settings.enabled
    /\ records["o1"].status = "pending" /\ records["o1"].count = 0
    /\ records["o2"].status = "absent"
    /\ orders["o1"] = "missing"

KnownUnits == {"seconds", "minutes", "hours", "days"}

\* The delay unit and value the action type's settings carry (reminder: those of
\* the first delay).
DelayUnit(s) == IF mgr = "reminder" THEN s.first_delay_unit ELSE s.delay_unit
DelayValue(s) == IF mgr = "reminder" THEN s.first_delay_value ELSE s.delay_value

\* v of the unit, in seconds.
SecondsOf(unit, v) ==
    CASE unit = "seconds" -> v
      [] unit = "minutes" -> v * 60
      [] unit = "hours"   -> v * 60 * 60
      [] unit = "days"    -> v * 24 * 60 * 60

\* The record created in this step, or looked at by the auto-review tick in this
\* step, is due at the trigger time plus d seconds: that is the due time the
\* created record carries; auto_review, which keeps the trigger time, sends at
\* the instants from it on and at no earlier one.
DueAfter(o, d) ==
    /\ (/\ mgr # "auto_review"
        /\ records[o].status = "absent" /\ records'[o].status = "pending") =>
           records'[o].next_time = now + d
    /\ (mgr = "auto_review" /\ Evaluating(o)) =>
           (tk'.pc = "sending" <=> now >= tk.batch[tk.i].completed_time + d)

\* C19: for every action type, every unit among seconds, minutes, hours and
\* days, and every delay value v, the due time is the trigger time plus
\* exactly v of the unit.
C19_ExactDelay ==
    [][\A o \in Orders :
          DelayUnit(settings) \in KnownUnits =>
              DueAfter(o, SecondsOf(DelayUnit(settings), DelayValue(settings)))
      ]_vars

\* C20: a delay unit that is none of seconds, minutes, hours, days counts as
\* seconds in the delay calculator of every action type.
C20_UnknownUnitIsSeconds ==
    [][\A o \in Orders :
          DelayUnit(settings) \notin KnownUnits =>
              DueAfter(o, SecondsOf("seconds", DelayValue(settings)))
      ]_vars

\* The scenario of the specification: the reminder manager over one shipped
\* order, first delay 3 days, interval 2 days, at least two reminders allowed;
\* the order ships on some day and the ticks come on whole days after it.
ScenarioSettings ==
    {[ReminderSettings(n) EXCEPT !.first_delay_value = 3, !.reminder_interval = 2]
        : n \in 2..(MaxReminderCount + 1)}

ScenarioInstants == {k * DaySeconds : k \in 1..MaxTickDays}

InitScenario ==
    /\ mgr = "reminder"
    /\ now = 0
    /\ orders = [o \in Orders |-> "shipped"]
    /\ records = [o \in Orders |-> NoRecord]
    /\ settings \in ScenarioSettings
    /\ facts = [o \in Orders |-> NoFacts]
    /\ channel = "open"
    /\ templates = TRUE
    /\ tk = IdleTask
    /\ delivered = [o \in Orders |-> 0]
    /\ engine = RunningEngine

NextScenario ==
    \/ ReminderManager({"o1"})
    \/ paced
    \/ \E t \in ScenarioInstants : SetClock(t)
    \/ \E c \in Channels : SetChannel(c)

SpecScenario == InitScenario /\ [][NextScenario]_vars

\* C21: with first delay 3 days, interval 2 days and at least two reminders
\* allowed, the record created for ship time T is due at T+3d, and the
\* successful send of the first reminder, on whichever tick it comes, moves the
\* due time to exactly T+3d+2d.
C21_SecondDueFixed ==
    [][\A o \in Orders :
          /\ (reminder_on_order_shipped(o, now) /\ records[o].status = "absent") =>
                 records'[o].next_time = now + 3 * DaySeconds
          /\ (/\ Returning(o) /\ tk'.outcome = "success"
              /\ records[o].status = "pending" /\ records[o].count = 0) =>
                 records'[o].next_time = records[o].next_time + 2 * DaySeconds
      ]_vars

\* The settings row comes back without its max_reminder_count key.
lose_max_reminder_count ==
    /\ mgr = "reminder"
    /\ Suspended
    /\ settings.present /\ settings.max_reminder_count # None
    /\ settings' = [settings EXCEPT !.max_reminder_count = None]
    /\ UNCHANGED <<mgr, engine, now, orders, records, facts, channel, templates, tk, delivered>>

\* The reminder manager over two shipped orders whose settings may lose the key.
InitMalformed ==
    /\ mgr = "reminder"
    /\ now = 0
    /\ orders = [o \in Orders |-> "shipped"]
    /\ records = [o \in Orders |-> NoRecord]
    /\ settings \in InitialSettings(mgr)
    /\ facts = [o \in Orders |-> NoFacts]
    /\ channel = "open"
    /\ templates = TRUE
    /\ tk = IdleTask
    /\ delivered = [o \in Orders |-> 0]
    /\ engine = RunningEngine

\* reminder_sent in runs where the sends of a record do not end by themselves:
\* the runs stop after MaxReminderCount + 1 of them.
reminder_sent_bounded(success) ==
    /\ \A o \in Orders : delivered[o] <= MaxReminderCount
    /\ reminder_sent(success)

NextMalformed ==
    \/ check_and_send_reminders
    \/ reminder_record
    \/ \E success \in BOOLEAN : reminder_sent_bounded(success)
    \/ \E o \in Orders : reminder_on_order_shipped(o, now)
    \/ \E o \in Orders : reminder_on_order_completed(o)
    \/ reminder_scan_shipped_orders
    \/ paced
    \/ AdvanceClock
    \/ lose_max_reminder_count

SpecMalformed == InitMalformed /\ [][NextMalformed]_vars

\* C22: settings without the max_reminder_count key fail closed: the calculator
\* gives None, and a due record whose reminder was sent under such settings is
\* left with nothing further to do: no later tick fetches it as due.
C22_MalformedFailsClosed ==
    [][\A o \in Orders :
          (/\ mgr = "reminder"
           /\ tk.settings.max_reminder_count = None
           /\ Returning(o)
           /\ delivered'[o] = delivered[o] + 1) =>
              /\ calculate_next_reminder_time(tk.current_time, tk.settings,
                                              tk.batch[tk.i].count + 1) = None
              /\ ~(records'[o].status = "pending" /\ records'[o].next_time # None)
      ]_vars

\* ---------------------------------------------------- repository errors

\* get_*_settings or get_pending_* raises at the start of a tick.
get_pending_raised ==
    /\ tk.pc = "sleep"
    /\ engine.running
    /\ tk' = tick_raised(tk)
    /\ UNCHANGED <<mgr, engine, now, orders, records, settings, facts, channel, templates, delivered>>

\* A table lookup of should_remind raises: its own `except Exception` returns
\* False, and the loop body marks the record cancelled.
should_remind_raised ==
    /\ mgr = "reminder"
    /\ tk.pc = "eval"
    /\ records' = update_status(records, tk.batch[tk.i].order_id, "cancelled")
    /\ tk' = NextRecord(tk, "cancelled")
    /\ UNCHANGED <<mgr, engine, now, orders, settings, facts, channel, templates, delivered>>

\* The same in should_request_flower.
should_request_flower_raised ==
    /\ mgr = "flower_request"
    /\ tk.pc = "eval"
    /\ records' = update_status(records, tk.batch[tk.i].order_id, "cancelled")
    /\ tk' = NextRecord(tk, "cancelled")
    /\ UNCHANGED <<mgr, engine, now, orders, settings, facts, channel, templates, delivered>>

\* get_order_by_id raises in the loop body of check_and_send_review_requests.
get_order_raised ==
    /\ mgr = "review_request"
    /\ tk.pc = "eval"
    /\ tk' = record_raised(tk)
    /\ UNCHANGED <<mgr, engine, now, orders, records, settings, facts, channel, templates, delivered>>

\* A table lookup of _should_skip_review raises: nothing catches it before the
\* `except Exception` around _process_review_order.
should_skip_review_raised ==
    /\ mgr = "auto_review"
    /\ tk.pc = "eval"
    /\ tk' = record_raised(tk)
    /\ UNCHANGED <<mgr, engine, now, orders, records, settings, facts, channel, templates, delivered>>

\* update_*_record raises after send_*_message returned True; the record is left
\* as it was and is sent again, so the runs stop after MaxReminderCount + 1 sends.
update_record_raised ==
    /\ mgr \in {"reminder", "review_request", "flower_request"}
    /\ tk.pc = "sending"
    /\ delivered[tk.batch[tk.i].order_id] <= MaxReminderCount
    /\ delivered' = [delivered EXCEPT ![tk.batch[tk.i].order_id] = @ + 1]
    /\ tk' = record_raised(tk)
    /\ UNCHANGED <<mgr, engine, now, orders, records, settings, facts, channel, templates>>

\* A repository error while the exclusion rules or the order status of the
\* record are evaluated.
RulesRaised ==
    \/ should_remind_raised
    \/ should_request_flower_raised
    \/ get_order_raised
    \/ should_skip_review_raised

\* The order status with which the records of the action type are processed.
ReadyStatus(m) == IF m \in {"reminder", "flower_request"} THEN "shipped" ELSE "completed"

Tick ==
    \/ check_and_send_reminders
    \/ check_and_send_review_requests
    \/ check_and_send_flower_requests
    \/ check_and_collect_flowers
    \/ check_and_review_orders

RecordStep ==
    \/ reminder_record
    \/ review_request_record
    \/ flower_request_record
    \/ flower_collect_record
    \/ process_review_order

SendReturns ==
    \/ \E success \in BOOLEAN : reminder_sent(success)
    \/ \E success \in BOOLEAN : review_request_sent(success)
    \/ \E success \in BOOLEAN : flower_request_sent(success)
    \/ \E success \in BOOLEAN : send_review_returned(success)

\* Every manager over two orders that are in the status their records need,
\* with a repository that may raise.
InitErrors ==
    /\ mgr \in Managers
    /\ now = 0
    /\ orders = [o \in Orders |-> ReadyStatus(mgr)]
    /\ records = [o \in Orders |-> NoRecord]
    /\ settings \in InitialSettings(mgr)
    /\ facts = [o \in Orders |-> NoFacts]
    /\ channel = "open"
    /\ templates = TRUE
    /\ tk = IdleTask
    /\ delivered = [o \in Orders |-> 0]
    /\ engine = RunningEngine

NextErrors ==
    \/ Tick
    \/ RecordStep
    \/ SendReturns
    \/ paced
    \/ \E o \in Orders : CreationCallback(o)
    \/ AdvanceClock
    \/ get_pending_raised
    \/ RulesRaised
    \/ update_record_raised

SpecErrors == InitErrors /\ [][NextErrors]_vars

\* C23: a repository error while a record's exclusion rules or order status are
\* evaluated does not cancel the record: it stays pending as it was, to be
\* evaluated again on a later tick.
C23_RepoErrorKeepsPending ==
    [][\A o \in Orders :
          (RulesRaised /\ tk.batch[tk.i].order_id = o /\ records[o].status = "pending") =>
              records'[o] = records[o]
      ]_vars

\* C25: an exception while one record of a batch is processed leaves the loop
\* running and at the next record of the same batch, when there is one.
C25_BatchSurvivesRecordError ==
    [][(RulesRaised \/ update_record_raised) =>
          /\ tk'.pc # "done"
          /\ (tk.i < Len(tk.batch)) => (tk'.pc = "eval" /\ tk'.i = tk.i + 1)
      ]_vars

\* C25 witness: the first record of a batch of two raised, and the loop is at
\* the second.
C25_Witness ==
    /\ tk.pc = "eval" /\ tk.i = 2 /\ Len(tk.batch) = 2
    /\ tk.outcome = "error"
    /\ records[tk.batch[1].order_id].status = "pending"

\* The check loop keeps running: the event loop resumes it at each of its awaits,
\* the sleeps end and an awaited send returns or raises.
LoopFairness ==
    /\ WF_vars(Tick)
    /\ WF_vars(RecordStep)
    /\ WF_vars(SendReturns)
    /\ WF_vars(paced)

SpecErrorsLive == SpecErrors /\ LoopFairness

Attempted(o) == Returning(o) \/ (mgr = "flower_collect" /\ Evaluating(o))

\* C26: within a tick of any action type, a send attempt that is not the last of
\* the batch is followed by the pacing delay before the loop goes on to the
\* next record, so that a pacing delay lies between any two consecutive sends.
C26_PacedBetweenSends ==
    [][\A o \in Orders :
          (Attempted(o) /\ tk.i < Len(tk.batch)) => tk'.pc = "pace"
      ]_vars

\* The check loop keeps running, but an awaited send need not return: the
\* managers await send_msg / send_review as they are, with no timeout of their own.
BlockingFairness ==
    /\ WF_vars(Tick)
    /\ WF_vars(RecordStep)
    /\ WF_vars(paced)

SpecBlocking == SpecErrors /\ BlockingFairness

\* The auto-review manager over two accounts with one order each.  Its single
\* check task goes through the accounts get_auto_review_enabled_cookies returns,
\* one after the other, and through each account's pending orders: the batch of
\* the tick is the rows of the first account followed by those of the second.
\* (Both accounts have the same settings.)
AccountOf(o) == IF o = "o1" THEN "a1" ELSE "a2"

InitAccounts ==
    /\ mgr = "auto_review"
    /\ now = 0
    /\ orders = [o \in Orders |-> "completed"]
    /\ records = [o \in Orders |-> NoRecord]
    /\ settings \in InitialSettings(mgr)
    /\ facts = [o \in Orders |-> NoFacts]
    /\ channel = "open"
    /\ templates = TRUE
    /\ tk = IdleTask
    /\ delivered = [o \in Orders |-> 0]
    /\ engine = RunningEngine

NextAccounts ==
    \/ AutoReviewManager(Orders)
    \/ AdvanceClock
    \/ \E c \in Channels : SetChannel(c)
    \/ \E b \in BOOLEAN : SetTemplates(b)

SpecAccounts == InitAccounts /\ [][NextAccounts]_vars /\ BlockingFairness

\* The record of order o is pending and due for the manager's next look at it.
DuePending(o) ==
    /\ records[o].status = "pending"
    /\ IF mgr = "auto_review"
       THEN is_review_time_reached(records[o].next_time, settings, now)
       ELSE records[o].next_time # None /\ records[o].next_time <= now

\* C27: a send that blocks for one account does not keep the due records of
\* another account from being processed: while the send for one account's order
\* is in flight, a due record of another account's order is processed all the
\* same (or the send has returned).
C27_AccountsIndependent ==
    \A o \in Orders, p \in Orders :
        AccountOf(o) # AccountOf(p) =>
            ((tk.pc = "sending" /\ tk.batch[tk.i].order_id = o /\ DuePending(p))
                ~> (~DuePending(p) \/ tk.pc # "sending"))

\* C28: a send that does not return is cut off by a timeout: the loop does not
\* wait at the send of a record for ever; whether the send returns or not, the
\* loop comes to leave it (counting it as failed when it was cut off) and goes
\* on to its next record or tick.
C28_SendBounded ==
    \A o \in Orders :
        (tk.pc = "sending" /\ tk.batch[tk.i].order_id = o)
            ~> ~(tk.pc = "sending" /\ tk.batch[tk.i].order_id = o)

\* Retries: every manager over two orders in the status their records need, no
\* buyer excluded; the connection may be down at first and comes up.
InitRetry ==
    /\ mgr \in Managers
    /\ now = 0
    /\ orders = [o \in Orders |-> ReadyStatus(mgr)]
    /\ records = [o \in Orders |-> NoRecord]
    /\ settings \in InitialSettings(mgr)
    /\ facts = [o \in Orders |-> NoFacts]
    /\ channel \in Channels
    /\ templates = TRUE
    /\ tk = IdleTask
    /\ delivered = [o \in Orders |-> 0]
    /\ engine = RunningEngine

NextRetry ==
    \/ Tick
    \/ RecordStep
    \/ SendReturns
    \/ paced
    \/ \E o \in Orders : CreationCallback(o)
    \/ AdvanceClock
    \/ SetChannel("open")

\* The awaited send returns success.
SendSucceeds ==
    \/ reminder_sent(TRUE)
    \/ review_request_sent(TRUE)
    \/ flower_request_sent(TRUE)
    \/ send_review_returned(TRUE)

\* The task keeps ticking, the connection comes up (at one of the awaits of the
\* task, where the rest of the program runs), every send returns, and a send
\* that is tried again and again succeeds in the end.
RetryFairness ==
    /\ LoopFairness
    /\ SF_vars(SetChannel("open"))
    /\ SF_vars(SendSucceeds)

SpecRetry == InitRetry /\ [][NextRetry]_vars /\ RetryFairness

\* C29: a failed send attempt leaves the record pending and due, for the next
\* tick to try again; and a due pending record (its order in the right status,
\* no rule excluding it) leaves its step in the end: completed, or for reminder
\* one more reminder counted.
C29_RetriedUntilSent ==
    /\ [][\A o \in Orders :
             (Attempted(o) /\ tk'.outcome = "failed") => DuePending(o)'
         ]_vars
    /\ \A o \in Orders, c \in 0..MaxReminderCount :
           (DuePending(o) /\ records[o].count = c)
               ~> (records[o].status = "completed" \/ records[o].count > c)

\* What rescan_shipped_orders of the account returns when it is called now.
Scanned ==
    IF mgr = "reminder" THEN scan_shipped_orders(settings, now)
    ELSE flower_scan(settings, now)

\* The counts are those of the call: total the shipped orders, created the
\* records the call adds, skipped the shipped orders that have a record, whose
\* records (like all existing ones) the call leaves as they are.
CountsMatch(r) ==
    /\ r.total = r.created + r.skipped
    /\ r.total = Cardinality(get_shipped_orders)
    /\ r.created = Cardinality({o \in Orders : records[o].status = "absent"
                                                /\ r.recs[o].status # "absent"})
    /\ r.skipped >= Cardinality({o \in get_shipped_orders : records[o].status # "absent"})
    /\ \A o \in Orders : records[o].status # "absent" => r.recs[o] = records[o]

\* C30 as stated: whenever rescan_shipped_orders is called, it returns
\* total = created + skipped with total the number of shipped orders of the
\* account, created the number of records the call adds, and every order that
\* has a record counted as skipped and left unchanged.
C30_ScanCounts ==
    (mgr \in {"reminder", "flower_request"} /\ Suspended) => CountsMatch(Scanned)

\* C30 amended: that holds when the settings of the action type exist and are
\* enabled; when they are missing or disabled the call returns
\* total = created = skipped = 0 with an error, whatever orders are shipped,
\* and adds no record.
C30_ScanCountsWhenEnabled ==
    (mgr \in {"reminder", "flower_request"} /\ Suspended) =>
        IF settings.present /\ settings.enabled
        THEN CountsMatch(Scanned) /\ ~Scanned.error
        ELSE /\ Scanned.total = 0 /\ Scanned.created = 0 /\ Scanned.skipped = 0
             /\ Scanned.error
             /\ Scanned.recs = records

\* C30 witness: with the settings enabled, two orders are shipped, one has its
\* record and the other none: the call returns total 2, created 1, skipped 1.
C30_Witness ==
    /\ mgr \in {"reminder", "flower_request"} /\ Suspended
    /\ settings.present /\ settings.enabled
    /\ get_shipped_orders = Orders
    /\ Scanned.total = 2 /\ Scanned.created = 1 /\ Scanned.skipped = 1

\* ------------------------------------------------ two accounts, one dict

\* start_reminder_task for the second account: a task still there is cancelled
\* (it is not followed further) and the entry is set to a new task.
other_start_task ==
    /\ mgr \in PerAccountManagers
    /\ Suspended
    /\ engine.other.pc \in {"none", "done"}
    /\ engine' = [engine EXCEPT !.other = [registered |-> TRUE, pc |-> "sleep"]]
    /\ UNCHANGED <<mgr, now, orders, records, settings, facts, channel, templates, tk, delivered>>

\* stop_reminder_task for the second account
other_stop_task ==
    /\ mgr \in PerAccountManagers
    /\ Suspended
    /\ engine' = [engine EXCEPT !.other = other_cancelled(@)]
    /\ UNCHANGED <<mgr, now, orders, records, settings, facts, channel, templates, tk, delivered>>

\* The second account's loop: `while self.running`, a tick, the sleep.
other_task_ticks ==
    /\ mgr \in PerAccountManagers
    /\ Suspended
    /\ engine.other.pc \in {"sleep", "tick"}
    /\ engine' = [engine EXCEPT !.other.pc =
                     IF @ = "tick" THEN "sleep" ELSE IF engine.running THEN "tick" ELSE "done"]
    /\ UNCHANGED <<mgr, now, orders, records, settings, facts, channel, templates, tk, delivered>>

\* The event loop runs the second account's cancelled task.
other_task_cancelled ==
    /\ mgr \in PerAccountManagers
    /\ Suspended
    /\ engine.other.pc = "cancelling"
    /\ engine' = [engine EXCEPT !.other.pc = "done"]
    /\ UNCHANGED <<mgr, now, orders, records, settings, facts, channel, templates, tk, delivered>>

OtherAccount ==
    \/ other_start_task
    \/ other_stop_task
    \/ other_task_ticks
    \/ other_task_cancelled

\* The per-account managers with two accounts in the tasks dict: the first
\* with one shipped order, the second followed by its task only; the seller
\* may switch the reminders of the first account off and on.
InitRegistry ==
    /\ mgr \in PerAccountManagers
    /\ now = 0
    /\ orders = [o \in Orders |-> IF o = "o1" THEN "shipped" ELSE "missing"]
    /\ records = [o \in Orders |-> NoRecord]
    /\ settings \in InitialSettings(mgr)
    /\ facts = [o \in Orders |-> NoFacts]
    /\ channel = "open"
    /\ templates = TRUE
    /\ tk = [IdleTask EXCEPT !.pc = "done"]
    /\ delivered = [o \in Orders |-> 0]
    /\ engine = [RunningEngine EXCEPT !.running = FALSE, !.registered = FALSE]

NextRegistry ==
    \/ ReminderManager({"o1"})
    \/ ReviewRequestManager({"o1"})
    \/ FlowerRequestManager({"o1"})
    \/ FlowerCollectManager({"o1"})
    \/ paced
    \/ SetOrderStatus("o1", "completed")
    \/ AdvanceClock
    \/ start
    \/ stop
    \/ start_task
    \/ stop_task
    \/ task_cancelled
    \/ old_task_cancelled
    \/ loop_exits
    \/ OtherAccount
    \/ \E e \in BOOLEAN : save_reminder_settings(e, settings.max_reminder_count)

SpecRegistry == InitRegistry /\ [][NextRegistry]_vars

\* C31: stopping one account's task cancels that task and removes that entry
\* only: the other account's entry and task are as they were (so a task between
\* ticks goes on to its next tick), in both directions; and stopping an account
\* that has no entry changes nothing at all.
C31_StopOneAccount ==
    /\ [](~engine.registered =>
            stop_reminder_task(engine, tk) = [engine |-> engine, tk |-> tk])
    /\ [][
          /\ (stop_task /\ engine.registered) =>
                (/\ engine'.other = engine.other
                 /\ ~engine'.registered
                 /\ tk' = cancel(tk)
                 /\ engine'.running = engine.running)
          /\ (other_stop_task /\ engine.other.registered) =>
                (/\ tk' = tk
                 /\ engine'.registered = engine.registered
                 /\ ~engine'.other.registered)
       ]_vars

\* The first account's task was stopped at a send while the second account's
\* task is registered and inside a tick.
C31_Witness ==
    /\ engine.running
    /\ ~engine.registered /\ tk.pc = "cancelling" /\ engine.at = "sending"
    /\ engine.other.registered /\ engine.other.pc = "tick"

\* C32: a reminder send that succeeded with steps remaining (the new count is
\* below max_reminder_count of the tick's settings) leaves the record pending,
\* with the count one above the count it had and a next_reminder_time that is
\* set and later than the one it had.
C32_EscalationStep ==
    [][
        \A o \in Orders :
            (/\ mgr = "reminder"
             /\ Returning(o)
             /\ delivered'[o] = delivered[o] + 1
             /\ tk.settings.max_reminder_count # None
             /\ tk.batch[tk.i].count + 1 < tk.settings.max_reminder_count) =>
                (/\ records'[o].status = "pending"
                 /\ records'[o].count = records[o].count + 1
                 /\ records'[o].next_time # None
                 /\ records'[o].next_time > records[o].next_time)
    ]_vars

\* The first of two reminders of o1 went out: the record is pending with count
\* 1 and is due one interval after the tick.
C32_Witness ==
    /\ mgr = "reminder"
    /\ tk.pc = "pace" /\ tk.outcome = "success" /\ tk.batch[tk.i].order_id = "o1"
    /\ tk.settings.max_reminder_count = 2
    /\ delivered["o1"] = 1
    /\ records["o1"].status = "pending" /\ records["o1"].count = 1
    /\ records["o1"].next_time = tk.current_time + timedelta("days", tk.settings.reminder_interval)

\* C33: no step of the program (a tick's write, a creation or completion
\* callback, a rescan, a start or a stop) lowers the reminder_count of a record.
C33_CountNeverDecreases ==
    [][\A o \in Orders : records'[o].count >= records[o].count]_vars

\* Both orders were reminded, o1 to the maximum of two, and the completion
\* callback of o1 has run since.
C33_Witness ==
    /\ mgr = "reminder"
    /\ records["o1"].count = 2 /\ records["o1"].status = "completed"
    /\ orders["o1"] = "completed"
    /\ records["o2"].count = 1 /\ records["o2"].status = "pending"

\* ------------------------------------------- event times and creation times

\* The originating events took place at time 0 or one hour later; the orders
\* table may or may not keep the time.
EventTimes == {0, HourSeconds}

EventFacts ==
    UNION {{[NoFacts EXCEPT !.event_time = e, !.ship_time = st] : st \in {None, e}}
              : e \in EventTimes}

\* The caller of a creation callback passes the event's time where the
\* callback has a parameter for it.
EventCallback(o) ==
    \/ reminder_on_order_shipped(o, facts[o].event_time)
    \/ review_on_order_completed(o, facts[o].event_time)
    \/ flower_on_order_shipped(o, facts[o].event_time)
    \/ on_flower_received(o, facts[o].event_time)
    \/ auto_review_on_order_completed(o)

\* Every manager; the callbacks and the rescans run at the time of the events or
\* days later.
InitEvents ==
    /\ mgr \in Managers
    /\ now = HourSeconds
    /\ orders = [o \in Orders |-> "shipped"]
    /\ records = [o \in Orders |-> NoRecord]
    /\ settings \in InitialSettings(mgr)
    /\ facts \in [Orders -> EventFacts]
    /\ channel = "open"
    /\ templates = TRUE
    /\ tk = IdleTask
    /\ delivered = [o \in Orders |-> 0]
    /\ engine = RunningEngine

NextEvents ==
    \/ \E o \in Orders : EventCallback(o)
    \/ reminder_scan_shipped_orders
    \/ flower_scan_shipped_orders
    \/ \E o \in Orders : SetOrderStatus(o, "completed")
    \/ AdvanceClock

SpecEvents == InitEvents /\ [][NextEvents]_vars

\* The delay before the first action, and the time at which a record is first
\* due (the auto-review record keeps completed_time, the delay is added by the tick).
FirstDelay ==
    IF mgr = "reminder"
    THEN timedelta(settings.first_delay_unit, settings.first_delay_value)
    ELSE timedelta(settings.delay_unit, settings.delay_value)

FirstDue(r) == IF mgr = "auto_review" THEN r.next_time + FirstDelay ELSE r.next_time

\* C34: a record that is created is first due at the time of its originating
\* event plus the configured delay, whatever the clock says when it is created.
C34_FirstDueFromEvent ==
    [][
        \A o \in Orders :
            (records[o].status = "absent" /\ records'[o].status # "absent") =>
                (FirstDue(records'[o]) = facts[o].event_time + FirstDelay)
    ]_vars

\* C35: the reminders delivered for an order by successful sends never number
\* more than max_reminder_count, also when the update of the record that
\* follows a successful send raises.
C35_DeliveredAtMostMax ==
    mgr = "reminder" => \A o \in Orders : delivered[o] <= settings.max_reminder_count

\* ------------------------------------------- completion during a tick

\* The buyer confirmed receipt: the completion callback of the order's manager,
\* taken once the orders table shows the order as completed.
order_completed(o) ==
    /\ orders[o] = "completed"
    /\ \/ reminder_on_order_completed(o)
       \/ flower_on_order_completed(o)

InitCompletion ==
    /\ mgr \in {"reminder", "flower_request"}
    /\ now = 0
    /\ orders = [o \in Orders |-> "shipped"]
    /\ records = [o \in Orders |-> NoRecord]
    /\ settings \in InitialSettings(mgr)
    /\ facts = [o \in Orders |-> NoFacts]
    /\ channel = "open"
    /\ templates = TRUE
    /\ tk = IdleTask
    /\ delivered = [o \in Orders |-> 0]
    /\ engine = RunningEngine

NextCompletion ==
    \/ check_and_send_reminders
    \/ reminder_record
    \/ \E success \in BOOLEAN : reminder_sent(success)
    \/ \E o \in Orders : reminder_on_order_shipped(o, now)
    \/ check_and_send_flower_requests
    \/ flower_request_record
    \/ \E success \in BOOLEAN : flower_request_sent(success)
    \/ \E o \in Orders : flower_on_order_shipped(o, now)
    \/ paced
    \/ \E o \in Orders : SetOrderStatus(o, "completed")
    \/ AdvanceClock
    \/ \E o \in Orders : order_completed(o)

SpecCompletion == InitCompletion /\ [][NextCompletion]_vars

\* The tick goes on to send for order o.
SendStarts(o) ==
    tk.pc = "eval" /\ tk.batch[tk.i].order_id = o /\ tk'.pc = "sending"

\* C36: once the completion callback of an order has run, no reminder and no
\* flower request goes out for the order, also when the callback ran while a
\* tick that had fetched the order's record was suspended at a send or at the
\* pacing sleep.  A record of a batch in progress that says completed before the
\* tick has written to it was completed by the callback.
C36_NoSendAfterCompleted ==
    [][
        \A o \in Orders :
            (records[o].status = "completed") =>
                (~SendStarts(o) /\ delivered'[o] = delivered[o])
    ]_vars

\* C37 as stated: a task created by start_*_task while the manager was not
\* running never works on a batch of records.
C37_NoTickIfStartedStopped ==
    (mgr \in PerAccountManagers /\ ~engine.started_running) =>
        tk.pc \in {"sleep", "cancelling", "done"}

\* C37: a task created by start_*_task while the manager was not running, which
\* comes to its `while self.running` with the manager still not running, ends
\* there: it has read and written no record, and its entry stays in the dict.
C37_EndsWhileStopped ==
    [][
        (/\ mgr \in PerAccountManagers
         /\ ~engine.started_running /\ ~engine.running
         /\ tk.pc = "sleep" /\ tk' # tk) =>
            (/\ tk'.pc \in {"done", "cancelling", "sleep"}
             /\ (tk'.pc = "done" =>
                    (/\ records' = records /\ delivered' = delivered
                     /\ engine'.registered = engine.registered)))
    ]_vars

\* The task was started while the manager was not running and has ended; its
\* entry is still in the dict, next to a due record that nobody looked at.
C37_Witness ==
    /\ mgr = "reminder"
    /\ ~engine.running /\ ~engine.started_running
    /\ engine.registered /\ tk.pc = "done"
    /\ records["o1"].status = "pending" /\ records["o1"].next_time <= now
    /\ delivered["o1"] = 0

\* C38: start() of a manager that is running creates no task, cancels no task
\* and leaves the tasks dict as it is; stop() of a manager that is not running
\* changes nothing.
C38_StartStopIdempotent ==
    /\ (mgr \in PerAccountManagers /\ engine.running) =>
          manager_start(engine, tk, settings) = [engine |-> engine, tk |-> tk]
    /\ (mgr \in PerAccountManagers /\ ~engine.running) =>
          manager_stop(engine, tk) = [engine |-> engine, tk |-> tk]
    /\ (mgr = "auto_review" /\ engine.running) =>
          auto_review_manager_start(engine, tk) = [engine |-> engine, tk |-> tk]
    /\ (mgr = "auto_review" /\ ~engine.running) =>
          auto_review_manager_stop(engine, tk) = [engine |-> engine, tk |-> tk]

\* start() has been called: the manager runs and the account's task is inside a
\* tick, at a send; a start() now would find reminders enabled for the account.
C38_Witness ==
    /\ mgr \in PerAccountManagers
    /\ engine.running /\ engine.started_running /\ engine.registered
    /\ settings.present /\ settings.enabled
    /\ tk.pc = "sending"
    /\ engine.old_alive + engine.old_cancelling = 0

\* ------------------------------------------------ switched off and on

\* The settings rows the seller may leave behind: enabled, disabled, none.
SavedSettings(m) ==
    InitialSettings(m) \cup {[s EXCEPT !.enabled = FALSE] : s \in InitialSettings(m)}
                       \cup {NoSettings}

settings_saved == \E s \in SavedSettings(mgr) : save_settings(s)

\* Every manager over one order, the action type being switched off and on.
InitDisabled ==
    /\ mgr \in Managers
    /\ now = 0
    /\ orders = [o \in Orders |-> IF o = "o1" THEN ReadyStatus(mgr) ELSE "missing"]
    /\ records = [o \in Orders |-> NoRecord]
    /\ settings \in InitialSettings(mgr)
    /\ facts = [o \in Orders |-> NoFacts]
    /\ channel = "open"
    /\ templates = TRUE
    /\ tk = IdleTask
    /\ delivered = [o \in Orders |-> 0]
    /\ engine = RunningEngine

NextDisabled ==
    \/ Tick
    \/ RecordStep
    \/ SendReturns
    \/ paced
    \/ CreationCallback("o1")
    \/ AdvanceClock
    \/ settings_saved

SpecDisabled == InitDisabled /\ [][NextDisabled]_vars

\* The rows the manager's tick would fetch now.
Fetched == IF mgr = "auto_review" THEN pending_rows(1) ELSE get_pending(now)

\* C39: a tick that finds the settings missing or disabled leaves the task
\* where it is, between ticks, with no batch to work on: no send starts, no
\* message goes out and no record is written while the settings stay so, and
\* the next tick reads the settings again.
C39_DisabledTickIdle ==
    /\ []((tk.pc = "sleep" /\ (~settings.present \/ ~settings.enabled)) =>
            fetch_batch(tk, settings, Fetched, now) = tk)
    /\ [][
          (tk.pc = "sleep" /\ (~settings.present \/ ~settings.enabled)) =>
              (/\ tk'.pc = "sleep"
               /\ delivered' = delivered
               /\ records' = records)
       ]_vars

\* The action type is switched off while the record of o1 is pending and due
\* and the task is between ticks; nothing was sent.
C39_Witness ==
    /\ settings.present /\ ~settings.enabled
    /\ tk.pc = "sleep" /\ engine.running
    /\ records["o1"].status = "pending" /\ Fetched # <<>>
    /\ now > 0
    /\ delivered["o1"] = 0

\* ------------------------------------------- skip conditions and delay

\* Buyers: nothing against them, blacklisted, or with a bad rating given.
SkipFacts ==
    {NoFacts, [NoFacts EXCEPT !.blacklist = TRUE], [NoFacts EXCEPT !.rating = "bad"]}

\* The auto-review settings with a delay of one hour, every exclusion on or the
\* blacklist exclusion off.
SkipSettings == {AutoReviewSettings, [AutoReviewSettings EXCEPT !.exclude_blacklist = "off"]}

\* The auto-review manager over two completed orders; ticks come before and
\* after the delay has passed.
InitSkip ==
    /\ mgr = "auto_review"
    /\ now = 0
    /\ orders = [o \in Orders |-> "completed"]
    /\ records = [o \in Orders |-> NoRecord]
    /\ settings \in SkipSettings
    /\ facts \in [Orders -> SkipFacts]
    /\ channel = "open"
    /\ templates = TRUE
    /\ tk = IdleTask
    /\ delivered = [o \in Orders |-> 0]
    /\ engine = RunningEngine

NextSkip ==
    \/ AutoReviewManager(Orders)
    \/ AdvanceClock

SpecSkip == InitSkip /\ [][NextSkip]_vars

\* The delay of the record of order o has not passed.
NotYetDue(o) ==
    now < records[o].next_time + timedelta(tk.settings.delay_unit, tk.settings.delay_value)

\* C40: the auto-review tick evaluates the exclusion rules before it looks at
\* the time: a pending record that an enabled rule excludes is marked skipped,
\* whether its delay has passed or not, and a record that no enabled rule
\* excludes and whose delay has not passed is left as it is.
C40_SkipBeforeDue ==
    [][
        \A o \in Orders :
            (mgr = "auto_review" /\ Evaluating(o) /\ records[o].status = "pending") =>
                (/\ Excluded(o) => records'[o].status = "skipped"
                 /\ (~Excluded(o) /\ NotYetDue(o)) => records'[o] = records[o])
    ]_vars

\* Within one tick, before the delay has passed: the record of the blacklisted
\* buyer of o1 was marked skipped and the record of o2, against whose buyer
\* there is nothing, was left pending.
C40_Witness ==
    /\ mgr = "auto_review"
    /\ facts["o1"].blacklist /\ settings.exclude_blacklist = "on"
    /\ facts["o2"] = NoFacts
    /\ records["o1"].status = "skipped" /\ records["o1"].next_time = now
    /\ records["o2"].status = "pending" /\ records["o2"].next_time = now
    /\ tk.pc = "sleep" /\ tk.outcome = "not_due"
    /\ delivered = [o \in Orders |-> 0]

====
